---- MODULE Spec2Model ----
(***************************************************************************)
(* Model of the RenderScript export-type subsystem of slang                *)
(* (slang_rs_export_type.cpp / slang_rs_export_type.h).                    *)
(*                                                                         *)
(* clang types are values: a canonical type is a record with a cls field   *)
(* (the clang::Type::TypeClass); a record type refers to its RecordDecl    *)
(* by a declaration id, so that a struct may point to itself.              *)
(* An identity name is a sequence of atoms: the leading punctuation        *)
(* characters '*' and '<' are atoms of their own, an identifier is one     *)
(* atom.  The empty llvm::StringRef is the empty sequence.                 *)
(***************************************************************************)
EXTENDS Integers, Sequences, FiniteSets, TLC

VARIABLES inp, out, is64Bit, export_types, heap, log

vars == <<inp, out, is64Bit, export_types, heap, log>>

(***************************************************************************)
(* Bounds of the model                                                     *)
(***************************************************************************)
MaxVecLen == 5
MaxArrayLen == 2
MaxCalls == 2
MaxDepth == 8

(***************************************************************************)
(* Program constants                                                       *)
(***************************************************************************)
kMaxVectorSize == 4
SLANG_ICS_TARGET_API == 14
SLANG_JB_TARGET_API == 16

DataTypeUnknown == -1
DataTypeFloat16 == 0
DataTypeFloat32 == 1
DataTypeFloat64 == 2
DataTypeSigned8 == 3
DataTypeSigned16 == 4
DataTypeSigned32 == 5
DataTypeSigned64 == 6
DataTypeUnsigned8 == 7
DataTypeUnsigned16 == 8
DataTypeUnsigned32 == 9
DataTypeUnsigned64 == 10
DataTypeBoolean == 11
DataTypeUnsigned565 == 12
DataTypeUnsigned5551 == 13
DataTypeUnsigned4444 == 14
DataTypeRSMatrix2x2 == 15
DataTypeRSMatrix3x3 == 16
DataTypeRSMatrix4x4 == 17
DataTypeRSElement == 18
DataTypeRSType == 19
DataTypeRSAllocation == 20
DataTypeRSSampler == 21
DataTypeRSScript == 22
DataTypeRSMesh == 23
DataTypeRSPath == 24
DataTypeRSProgramFragment == 25
DataTypeRSProgramVertex == 26
DataTypeRSProgramRaster == 27
DataTypeRSProgramStore == 28
DataTypeRSFont == 29
DataTypeMax == 30

\* gReflectionTypes, indexed by DataType + 1: category and size_in_bits.
gReflectionTypes ==
  << [category |-> "PrimitiveDataType", rs_type |-> "FLOAT_16", size_in_bits |-> 16],
     [category |-> "PrimitiveDataType", rs_type |-> "FLOAT_32", size_in_bits |-> 32],
     [category |-> "PrimitiveDataType", rs_type |-> "FLOAT_64", size_in_bits |-> 64],
     [category |-> "PrimitiveDataType", rs_type |-> "SIGNED_8", size_in_bits |-> 8],
     [category |-> "PrimitiveDataType", rs_type |-> "SIGNED_16", size_in_bits |-> 16],
     [category |-> "PrimitiveDataType", rs_type |-> "SIGNED_32", size_in_bits |-> 32],
     [category |-> "PrimitiveDataType", rs_type |-> "SIGNED_64", size_in_bits |-> 64],
     [category |-> "PrimitiveDataType", rs_type |-> "UNSIGNED_8", size_in_bits |-> 8],
     [category |-> "PrimitiveDataType", rs_type |-> "UNSIGNED_16", size_in_bits |-> 16],
     [category |-> "PrimitiveDataType", rs_type |-> "UNSIGNED_32", size_in_bits |-> 32],
     [category |-> "PrimitiveDataType", rs_type |-> "UNSIGNED_64", size_in_bits |-> 64],
     [category |-> "PrimitiveDataType", rs_type |-> "BOOLEAN", size_in_bits |-> 8],
     [category |-> "PrimitiveDataType", rs_type |-> "UNSIGNED_5_6_5", size_in_bits |-> 16],
     [category |-> "PrimitiveDataType", rs_type |-> "UNSIGNED_5_5_5_1", size_in_bits |-> 16],
     [category |-> "PrimitiveDataType", rs_type |-> "UNSIGNED_4_4_4_4", size_in_bits |-> 16],
     [category |-> "MatrixDataType", rs_type |-> "MATRIX_2X2", size_in_bits |-> 4 * 32],
     [category |-> "MatrixDataType", rs_type |-> "MATRIX_3X3", size_in_bits |-> 9 * 32],
     [category |-> "MatrixDataType", rs_type |-> "MATRIX_4X4", size_in_bits |-> 16 * 32],
     [category |-> "ObjectDataType", rs_type |-> "RS_ELEMENT", size_in_bits |-> 32],
     [category |-> "ObjectDataType", rs_type |-> "RS_TYPE", size_in_bits |-> 32],
     [category |-> "ObjectDataType", rs_type |-> "RS_ALLOCATION", size_in_bits |-> 32],
     [category |-> "ObjectDataType", rs_type |-> "RS_SAMPLER", size_in_bits |-> 32],
     [category |-> "ObjectDataType", rs_type |-> "RS_SCRIPT", size_in_bits |-> 32],
     [category |-> "ObjectDataType", rs_type |-> "RS_MESH", size_in_bits |-> 32],
     [category |-> "ObjectDataType", rs_type |-> "RS_PATH", size_in_bits |-> 32],
     [category |-> "ObjectDataType", rs_type |-> "RS_PROGRAM_FRAGMENT", size_in_bits |-> 32],
     [category |-> "ObjectDataType", rs_type |-> "RS_PROGRAM_VERTEX", size_in_bits |-> 32],
     [category |-> "ObjectDataType", rs_type |-> "RS_PROGRAM_RASTER", size_in_bits |-> 32],
     [category |-> "ObjectDataType", rs_type |-> "RS_PROGRAM_STORE", size_in_bits |-> 32],
     [category |-> "ObjectDataType", rs_type |-> "RS_FONT", size_in_bits |-> 32] >>

\* BuiltinInfoTable: clang builtin kind, DataType, the four C names.
BuiltinInfoTable ==
  << [builtinTypeKind |-> "Bool", type |-> DataTypeBoolean,
      cname |-> <<"bool", "bool2", "bool3", "bool4">>],
     [builtinTypeKind |-> "Char_U", type |-> DataTypeUnsigned8,
      cname |-> <<"uchar", "uchar2", "uchar3", "uchar4">>],
     [builtinTypeKind |-> "UChar", type |-> DataTypeUnsigned8,
      cname |-> <<"uchar", "uchar2", "uchar3", "uchar4">>],
     [builtinTypeKind |-> "Char16", type |-> DataTypeSigned16,
      cname |-> <<"short", "short2", "short3", "short4">>],
     [builtinTypeKind |-> "Char32", type |-> DataTypeSigned32,
      cname |-> <<"int", "int2", "int3", "int4">>],
     [builtinTypeKind |-> "UShort", type |-> DataTypeUnsigned16,
      cname |-> <<"ushort", "ushort2", "ushort3", "ushort4">>],
     [builtinTypeKind |-> "UInt", type |-> DataTypeUnsigned32,
      cname |-> <<"uint", "uint2", "uint3", "uint4">>],
     [builtinTypeKind |-> "ULong", type |-> DataTypeUnsigned32,
      cname |-> <<"uint", "uint2", "uint3", "uint4">>],
     [builtinTypeKind |-> "ULongLong", type |-> DataTypeUnsigned64,
      cname |-> <<"ulong", "ulong2", "ulong3", "ulong4">>],
     [builtinTypeKind |-> "Char_S", type |-> DataTypeSigned8,
      cname |-> <<"char", "char2", "char3", "char4">>],
     [builtinTypeKind |-> "SChar", type |-> DataTypeSigned8,
      cname |-> <<"char", "char2", "char3", "char4">>],
     [builtinTypeKind |-> "Short", type |-> DataTypeSigned16,
      cname |-> <<"short", "short2", "short3", "short4">>],
     [builtinTypeKind |-> "Int", type |-> DataTypeSigned32,
      cname |-> <<"int", "int2", "int3", "int4">>],
     [builtinTypeKind |-> "Long", type |-> DataTypeSigned64,
      cname |-> <<"long", "long2", "long3", "long4">>],
     [builtinTypeKind |-> "LongLong", type |-> DataTypeSigned64,
      cname |-> <<"long", "long2", "long3", "long4">>],
     [builtinTypeKind |-> "Float", type |-> DataTypeFloat32,
      cname |-> <<"float", "float2", "float3", "float4">>],
     [builtinTypeKind |-> "Double", type |-> DataTypeFloat64,
      cname |-> <<"double", "double2", "double3", "double4">>] >>

BuiltinInfoTableCount == Len(BuiltinInfoTable)

\* MatrixAndObjectDataTypes: type name -> DataType.
MatrixAndObjectDataTypes ==
  << [name |-> "rs_matrix2x2", dataType |-> DataTypeRSMatrix2x2],
     [name |-> "rs_matrix3x3", dataType |-> DataTypeRSMatrix3x3],
     [name |-> "rs_matrix4x4", dataType |-> DataTypeRSMatrix4x4],
     [name |-> "rs_element", dataType |-> DataTypeRSElement],
     [name |-> "rs_type", dataType |-> DataTypeRSType],
     [name |-> "rs_allocation", dataType |-> DataTypeRSAllocation],
     [name |-> "rs_sampler", dataType |-> DataTypeRSSampler],
     [name |-> "rs_script", dataType |-> DataTypeRSScript],
     [name |-> "rs_mesh", dataType |-> DataTypeRSMesh],
     [name |-> "rs_path", dataType |-> DataTypeRSPath],
     [name |-> "rs_program_fragment", dataType |-> DataTypeRSProgramFragment],
     [name |-> "rs_program_vertex", dataType |-> DataTypeRSProgramVertex],
     [name |-> "rs_program_raster", dataType |-> DataTypeRSProgramRaster],
     [name |-> "rs_program_store", dataType |-> DataTypeRSProgramStore],
     [name |-> "rs_font", dataType |-> DataTypeRSFont] >>

MatrixAndObjectDataTypesCount == Len(MatrixAndObjectDataTypes)

(***************************************************************************)
(* The host AST: canonical types and declarations                          *)
(***************************************************************************)
NullT == [cls |-> "Null"]
BuiltinT(k) == [cls |-> "Builtin", kind |-> k]
EnumT == [cls |-> "Enum"]
PointerT(p) == [cls |-> "Pointer", pointee |-> p]
ExtVectorT(e, n) == [cls |-> "ExtVector", elem |-> e, n |-> n]
ConstantArrayT(e, s) == [cls |-> "ConstantArray", elem |-> e, size |-> s]
IncompleteArrayT(e) == [cls |-> "IncompleteArray", elem |-> e]
RecordT(d) == [cls |-> "Record", decl |-> d]

\* ASTContext::IntTy
IntTy == BuiltinT("Int")

\* A FieldDecl: name, canonical type, bit-field flag, and whether the type
\* is written through a typedef (the declared type is then sugar).
Field(n, t) == [name |-> n, type |-> t, isBitField |-> FALSE, viaTypedef |-> FALSE]
BitField(n, t) == [name |-> n, type |-> t, isBitField |-> TRUE, viaTypedef |-> FALSE]
TypedefField(n, t) == [name |-> n, type |-> t, isBitField |-> FALSE, viaTypedef |-> TRUE]

\* A RecordDecl: tag name ("" for an anonymous record), typedef name for an
\* anonymous declaration ("" if none), union flag, whether a definition is
\* visible, the fields of the definition, and clang's record flags.
Struct(tag, fs) ==
  [name |-> tag, typedefName |-> "", isUnion |-> FALSE, hasDefinition |-> TRUE,
   fields |-> fs, hasFlexibleArrayMember |-> FALSE, hasObjectMember |-> FALSE,
   isPacked |-> FALSE]
Union(tag, fs) == [Struct(tag, fs) EXCEPT !.isUnion = TRUE]
AnonStruct(td, fs) == [Struct("", fs) EXCEPT !.typedefName = td]
ForwardStruct(tag) == [Struct(tag, <<>>) EXCEPT !.hasDefinition = FALSE]

NoDecl == "nullptr"

\* A NamedDecl: declaration kind, name, declared type and formal linkage
\* (ExternalLinkage, InternalLinkage or NoLinkage).  NoVD is the null pointer.
VarDecl(n, t, l) == [kind |-> "Var", name |-> n, type |-> t, linkage |-> l]
FunctionDecl(n, t, l) == [kind |-> "Function", name |-> n, type |-> t, linkage |-> l]
NoVD == [kind |-> "nullptr", name |-> "", type |-> NullT, linkage |-> "nullptr"]

ObjectNames ==
  {"rs_element", "rs_type", "rs_allocation", "rs_sampler", "rs_script",
   "rs_mesh", "rs_path", "rs_program_fragment", "rs_program_vertex",
   "rs_program_raster", "rs_program_store", "rs_font"}

\* The record declarations of the translation unit, by declaration id.
\* The runtime object types are declared as the RenderScript headers do:
\* typedef struct { const int *const p; } rs_element;
UserDecls ==
  [d \in {"Point", "Node", "Outer", "U", "Anon", "Foo", "Flex", "Fwd", "Bits",
          "S_uint", "S_float2", "M2", "M3", "M3_8", "M4_fwd", "M4_two",
          "M2_td", "M2_int", "M2_scalar", "M2_empty", "HasObj", "HasMat",
          "HasBadMat", "HasPtr", "HasEnum", "HasVec3", "OuterBad", "List",
          "S_rs_mesh", "HasObjDbl", "UObj", "HasUObj", "OuterObj", "HasObjFlex",
          "Point2", "PointAB", "PointP", "Point3", "PointFI",
          "OuterAnon", "OuterFlex", "OuterFwd", "OuterBits", "OuterPtr", "HasPtrArr",
          "HasArr2", "UHas", "SeenFirst", "UFirst", "UArr", "HasULong", "HasLong",
          "Ping", "Pong"} |->
     CASE d = "Point" -> Struct("Point", <<Field("x", BuiltinT("Int")),
                                          Field("y", BuiltinT("Float"))>>)
       [] d = "Node" -> Struct("Node", <<Field("v", BuiltinT("Int")),
                                        Field("next", PointerT(RecordT("Node")))>>)
       [] d = "List" -> Struct("List", <<Field("next", PointerT(RecordT("List")))>>)
       [] d = "S_rs_mesh" -> Struct("rs_mesh",
                                    <<Field("next", PointerT(RecordT("S_rs_mesh")))>>)
       [] d = "HasObjDbl" -> Struct("HasObjDbl", <<Field("d", BuiltinT("Double")),
                                                  Field("a", RecordT("rs_allocation"))>>)
       [] d = "UObj" -> Union("UObj", <<Field("i", BuiltinT("Int")),
                                        Field("e", RecordT("rs_element"))>>)
       [] d = "HasUObj" -> Struct("HasUObj", <<Field("u", RecordT("UObj")),
                                              Field("e", RecordT("rs_element"))>>)
       [] d = "OuterObj" -> Struct("OuterObj", <<Field("n", BuiltinT("Int")),
                                                Field("h", RecordT("HasObj"))>>)
       [] d = "HasObjFlex" ->
            [Struct("HasObjFlex", <<Field("s", RecordT("rs_script")),
                                    Field("data", IncompleteArrayT(BuiltinT("Int")))>>)
               EXCEPT !.hasFlexibleArrayMember = TRUE]
       [] d = "Point2" -> Struct("Point2", <<Field("x", BuiltinT("Int")),
                                            Field("y", BuiltinT("Float"))>>)
       [] d = "PointAB" -> Struct("PointAB", <<Field("a", BuiltinT("Int")),
                                              Field("b", BuiltinT("Float"))>>)
       [] d = "PointP" -> [Struct("PointP", <<Field("x", BuiltinT("Int")),
                                             Field("y", BuiltinT("Float"))>>)
                             EXCEPT !.isPacked = TRUE]
       [] d = "Point3" -> Struct("Point3", <<Field("x", BuiltinT("Int")),
                                            Field("y", BuiltinT("Float")),
                                            Field("z", BuiltinT("Int"))>>)
       [] d = "PointFI" -> Struct("PointFI", <<Field("x", BuiltinT("Float")),
                                              Field("y", BuiltinT("Int"))>>)
       [] d = "OuterAnon" -> Struct("OuterAnon", <<Field("n", BuiltinT("Int")),
                                                  Field("a", RecordT("Anon"))>>)
       [] d = "OuterFlex" -> Struct("OuterFlex", <<Field("n", BuiltinT("Int")),
                                                  Field("f", RecordT("Flex"))>>)
       [] d = "OuterFwd" -> Struct("OuterFwd", <<Field("f", RecordT("Fwd"))>>)
       [] d = "OuterBits" -> Struct("OuterBits", <<Field("n", BuiltinT("Int")),
                                                  Field("b", RecordT("Bits"))>>)
       [] d = "OuterPtr" -> Struct("OuterPtr", <<Field("n", BuiltinT("Int")),
                                                Field("h", RecordT("HasPtr"))>>)
       [] d = "HasPtrArr" ->
            Struct("HasPtrArr", <<Field("a", ConstantArrayT(PointerT(BuiltinT("Int")), 2))>>)
       [] d = "HasArr2" ->
            Struct("HasArr2",
                   <<Field("p", RecordT("Point")),
                     Field("a", ConstantArrayT(ConstantArrayT(BuiltinT("Int"), 2), 2))>>)
       [] d = "UHas" -> Union("UHas", <<Field("i", BuiltinT("Int")),
                                        Field("h", RecordT("HasObj"))>>)
       [] d = "SeenFirst" -> Struct("SeenFirst", <<Field("h", RecordT("HasObj")),
                                                  Field("u", RecordT("UHas"))>>)
       [] d = "UFirst" -> Struct("UFirst", <<Field("u", RecordT("UHas")),
                                            Field("h", RecordT("HasObj"))>>)
       [] d = "UArr" ->
            Union("UArr", <<Field("a", ConstantArrayT(RecordT("rs_element"), 2)),
                            Field("i", BuiltinT("Int"))>>)
       [] d = "HasULong" -> Struct("HasULong", <<Field("u", BuiltinT("ULongLong"))>>)
       [] d = "HasLong" -> Struct("HasLong", <<Field("l", BuiltinT("Long"))>>)
       [] d = "Ping" -> Struct("Ping", <<Field("v", BuiltinT("Int")),
                                        Field("p", PointerT(RecordT("Pong")))>>)
       [] d = "Pong" ->
            Struct("Pong", <<Field("q", ConstantArrayT(PointerT(RecordT("Ping")), 2))>>)
       [] d = "Outer" -> Struct("Outer", <<Field("p", RecordT("Point")),
                                          Field("a", ConstantArrayT(BuiltinT("Int"), 2))>>)
       [] d = "U" -> Union("U", <<Field("i", BuiltinT("Int")),
                                  Field("f", BuiltinT("Float"))>>)
       [] d = "Anon" -> AnonStruct("", <<Field("x", BuiltinT("Int"))>>)
       [] d = "Foo" -> AnonStruct("Foo", <<Field("x", BuiltinT("Int"))>>)
       [] d = "Flex" -> [Struct("Flex", <<Field("n", BuiltinT("Int")),
                                         Field("data", IncompleteArrayT(BuiltinT("Int")))>>)
                          EXCEPT !.hasFlexibleArrayMember = TRUE]
       [] d = "Fwd" -> ForwardStruct("Fwd")
       [] d = "Bits" -> Struct("Bits", <<Field("a", BuiltinT("Int")),
                                        BitField("b", BuiltinT("Int"))>>)
       [] d = "S_uint" -> Struct("uint", <<Field("x", BuiltinT("Int"))>>)
       [] d = "S_float2" -> Struct("float2", <<Field("x", BuiltinT("Float")),
                                              Field("y", BuiltinT("Float"))>>)
       [] d = "M2" -> Struct("rs_matrix2x2",
                             <<Field("m", ConstantArrayT(BuiltinT("Float"), 4))>>)
       [] d = "M3" -> AnonStruct("rs_matrix3x3",
                                 <<Field("m", ConstantArrayT(BuiltinT("Float"), 9))>>)
       [] d = "M3_8" -> Struct("rs_matrix3x3",
                               <<Field("m", ConstantArrayT(BuiltinT("Float"), 8))>>)
       [] d = "M4_fwd" -> ForwardStruct("rs_matrix4x4")
       [] d = "M4_two" -> Struct("rs_matrix4x4",
                                 <<Field("m", ConstantArrayT(BuiltinT("Float"), 16)),
                                   Field("pad", BuiltinT("Int"))>>)
       [] d = "M2_td" -> Struct("rs_matrix2x2",
                                <<TypedefField("m", ConstantArrayT(BuiltinT("Float"), 4))>>)
       [] d = "M2_int" -> Struct("rs_matrix2x2",
                                 <<Field("m", ConstantArrayT(BuiltinT("Int"), 4))>>)
       [] d = "M2_scalar" -> Struct("rs_matrix2x2", <<Field("m", BuiltinT("Float"))>>)
       [] d = "M2_empty" -> Struct("rs_matrix2x2", <<>>)
       [] d = "HasObj" -> Struct("HasObj", <<Field("e", RecordT("rs_element")),
                                            Field("n", BuiltinT("Int"))>>)
       [] d = "HasMat" -> Struct("HasMat", <<Field("m", RecordT("M3"))>>)
       [] d = "HasBadMat" -> Struct("HasBadMat", <<Field("n", BuiltinT("Int")),
                                                  Field("m", RecordT("M3_8"))>>)
       [] d = "HasPtr" -> Struct("HasPtr", <<Field("p", PointerT(BuiltinT("Int")))>>)
       [] d = "HasEnum" -> Struct("HasEnum", <<Field("e", EnumT)>>)
       [] d = "HasVec3" -> Struct("HasVec3",
                                  <<Field("v", ExtVectorT(BuiltinT("Float"), 3))>>)
       [] d = "OuterBad" -> Struct("OuterBad", <<Field("n", BuiltinT("Int")),
                                                Field("u", RecordT("U"))>>)]

ObjectDecls ==
  [d \in ObjectNames |-> AnonStruct(d, <<Field("p", PointerT(BuiltinT("Int")))>>)]

DeclIds == DOMAIN UserDecls \cup DOMAIN ObjectDecls

RecordDecl(d) == IF d \in DOMAIN ObjectDecls THEN ObjectDecls[d] ELSE UserDecls[d]

(***************************************************************************)
(* Helpers of slang_rs_export_type.h                                       *)
(***************************************************************************)
\* A typedef'd type is sugar over its canonical type.
GetCanonicalType(T) == IF T.cls = "Typedef" THEN T.under ELSE T

GetExtVectorElementType(T) == IF T = NullT THEN NullT ELSE GetCanonicalType(T.elem)

GetPointeeType(T) == IF T = NullT THEN NullT ELSE GetCanonicalType(T.pointee)

GetConstantArrayElementType(T) == IF T = NullT THEN NullT ELSE GetCanonicalType(T.elem)

IsDummyName(Name) == Len(Name) > 0 /\ Name[1] = "<"

\* clang::Type queries used by the code
isArrayType(T) == T.cls \in {"ConstantArray", "IncompleteArray"}
isExtVectorType(T) == T.cls = "ExtVector"
isUnionType(T) == T.cls = "Record" /\ RecordDecl(T.decl).isUnion
isStructureType(T) == T.cls = "Record" /\ ~RecordDecl(T.decl).isUnion

\* FieldDecl type as written (RSExportType::GetTypeOfDecl): a typedef'd
\* field type is sugar of class Typedef over the canonical type.
GetTypeOfDecl(FD) ==
  IF FD.viaTypedef THEN [cls |-> "Typedef", under |-> FD.type] ELSE FD.type

\* Index into BuiltinInfoTable of the first entry of the kind, 0 if none.
\* FindBuiltinType whose loop stops one row short of the table's end
FindBuiltinType_Short(builtinTypeKind) ==
  LET hits == {i \in 1..(BuiltinInfoTableCount - 1) :
                 BuiltinInfoTable[i].builtinTypeKind = builtinTypeKind}
  IN IF hits = {} THEN 0
     ELSE CHOOSE i \in hits : \A j \in hits : i <= j

FindBuiltinType(builtinTypeKind) ==
  LET hits == {i \in 1..BuiltinInfoTableCount :
                 BuiltinInfoTable[i].builtinTypeKind = builtinTypeKind}
  IN IF hits = {} THEN 0
     ELSE CHOOSE i \in hits : \A j \in hits : i <= j

IsPrimitiveType(T) == T # NullT /\ T.cls = "Builtin"

\* RSExportPrimitiveType::GetRSSpecificType(const llvm::StringRef &)
GetRSSpecificTypeByName(TypeName) ==
  IF TypeName = <<>> THEN DataTypeUnknown
  ELSE LET hits == {i \in 1..MatrixAndObjectDataTypesCount :
                      <<MatrixAndObjectDataTypes[i].name>> = TypeName}
       IN IF hits = {} THEN DataTypeUnknown
          ELSE MatrixAndObjectDataTypes[CHOOSE i \in hits : TRUE].dataType

IsRSMatrixType(DT) ==
  IF DT < 0 \/ DT >= DataTypeMax THEN FALSE
  ELSE gReflectionTypes[DT + 1].category = "MatrixDataType"

IsRSObjectType(DT) ==
  IF DT < 0 \/ DT >= DataTypeMax THEN FALSE
  ELSE gReflectionTypes[DT + 1].category = "ObjectDataType"

\* The name of a record declaration as RSExportType::GetTypeName derives it:
\* the tag name, else the typedef name of the anonymous declaration; the
\* redeclarations of an anonymous record carry no name either.
RecordTypeName(T) ==
  IF ~isStructureType(T) THEN <<>>
  ELSE LET RD == RecordDecl(T.decl)
           Name == IF RD.name # "" THEN RD.name ELSE RD.typedefName
       IN IF Name = "" THEN <<>> ELSE <<Name>>

\* RSExportPrimitiveType::GetRSSpecificType(const clang::Type *)
GetRSSpecificType(T) ==
  IF T = NullT \/ T.cls # "Record" THEN DataTypeUnknown
  ELSE GetRSSpecificTypeByName(RecordTypeName(T))

\* RSExportVectorType::GetTypeName with the name of the element for every
\* width
VectorGetTypeName_Base(EVT) ==
  LET ElementType == GetExtVectorElementType(EVT)
  IN IF ElementType.cls # "Builtin" THEN <<>>
     ELSE IF EVT.n < 1 \/ EVT.n > 4 THEN <<>>
     ELSE LET info == FindBuiltinType(ElementType.kind)
          IN IF info # 0 /\ EVT.n - 1 < kMaxVectorSize
               THEN <<BuiltinInfoTable[info].cname[1]>>
               ELSE <<>>

\* RSExportVectorType::GetTypeName
VectorGetTypeName(EVT) ==
  LET ElementType == GetExtVectorElementType(EVT)
  IN IF ElementType.cls # "Builtin" THEN <<>>
     ELSE IF EVT.n < 1 \/ EVT.n > 4 THEN <<>>
     ELSE LET info == FindBuiltinType(ElementType.kind)
          IN IF info # 0 /\ EVT.n - 1 < kMaxVectorSize
               THEN <<BuiltinInfoTable[info].cname[EVT.n]>>
               ELSE <<>>

(***************************************************************************)
(* Diagnostics.  A traversal threads a record st: the visited set SPS, the *)
(* diagnostics reported so far, and the faults met (a failed slangAssert,  *)
(* a report through a null RSContext, recursion beyond MaxDepth).          *)
(***************************************************************************)
NewSt == [SPS |-> {}, diags |-> <<>>, faults |-> {}, visits |-> <<>>]

Diag(msg, at, name) == [msg |-> msg, at |-> at, name |-> name]

\* Context->ReportError(...): Context is TRUE for a live RSContext, FALSE
\* for the nullptr GetTypeName passes down.
ReportError(Context, st, d) ==
  IF Context THEN [st EXCEPT !.diags = Append(@, d)]
  ELSE [st EXCEPT !.faults = @ \cup {"null_context"}]

slangAssertFalse(st) == [st EXCEPT !.faults = @ \cup {"assert"}]

ReportTypeError(Context, st, ND, TopLevelRecord, Message) ==
  IF TopLevelRecord # NoDecl
    THEN ReportError(Context, st,
                     Diag(Message, <<"record", TopLevelRecord>>,
                          RecordDecl(TopLevelRecord).name))
  ELSE IF ND # NoVD
    THEN ReportError(Context, st, Diag(Message, <<"decl", ND.name>>, ND.name))
  ELSE slangAssertFalse(st)

Fail(st) == [ret |-> NullT, st |-> st]
Ok(T, st) == [ret |-> T, st |-> st]

(***************************************************************************)
(* Exportability Analyzer                                                  *)
(***************************************************************************)
RECURSIVE TypeExportableHelper(_, _, _, _, _, _)
RECURSIVE TypeExportableFields(_, _, _, _, _, _, _, _)

\* ConstantArrayTypeExportableHelper without the width-3 restriction
ConstantArrayTypeExportableHelper_NoVec3(CAT, st, Context, VD, TopLevelRecord, d) ==
  LET ElementType == GetConstantArrayElementType(CAT)
      rest == LET r == TypeExportableHelper(ElementType, st, Context, VD,
                                            TopLevelRecord, d + 1)
              IN IF r.ret = NullT THEN Fail(r.st) ELSE Ok(CAT, r.st)
  IN IF isArrayType(ElementType)
       THEN Fail(ReportTypeError(Context, st, VD, TopLevelRecord,
                   "multidimensional arrays cannot be exported: '%0'"))
     ELSE IF isExtVectorType(ElementType)
       THEN IF ~IsPrimitiveType(GetExtVectorElementType(ElementType))
              THEN Fail(ReportTypeError(Context, st, VD, TopLevelRecord,
                     "vectors of non-primitive types cannot be exported: '%0'"))
            ELSE rest
     ELSE rest

ConstantArrayTypeExportableHelper(CAT, st, Context, VD, TopLevelRecord, d) ==
  LET ElementType == GetConstantArrayElementType(CAT)
      rest == LET r == TypeExportableHelper(ElementType, st, Context, VD,
                                            TopLevelRecord, d + 1)
              IN IF r.ret = NullT THEN Fail(r.st) ELSE Ok(CAT, r.st)
  IN IF isArrayType(ElementType)
       THEN Fail(ReportTypeError(Context, st, VD, TopLevelRecord,
                   "multidimensional arrays cannot be exported: '%0'"))
     ELSE IF isExtVectorType(ElementType)
       THEN IF ~IsPrimitiveType(GetExtVectorElementType(ElementType))
              THEN Fail(ReportTypeError(Context, st, VD, TopLevelRecord,
                     "vectors of non-primitive types cannot be exported: '%0'"))
            ELSE IF ElementType.n = 3 /\ CAT.size # 1
              THEN Fail(ReportTypeError(Context, st, VD, TopLevelRecord,
                     "arrays of width 3 vector types cannot be exported: '%0'"))
            ELSE rest
     ELSE rest

\* The field loop of the Record case: fields i..Len of RD.
TypeExportableFields(T, RD, i, st, Context, VD, TopLevelRecord, d) ==
  IF i > Len(RD.fields) THEN Ok(T, st)
  ELSE LET FD == RD.fields[i]
           FT == GetCanonicalType(GetTypeOfDecl(FD))
           r == TypeExportableHelper(FT, st, Context, VD, TopLevelRecord, d + 1)
       IN IF r.ret = NullT THEN Fail(r.st)
          ELSE IF FD.isBitField
            THEN Fail(ReportError(Context, r.st,
                        Diag("bit fields are not able to be exported: '%0.%1'",
                             <<"field", FD.name>>, RD.name)))
          ELSE TypeExportableFields(T, RD, i + 1, r.st, Context, VD,
                                    TopLevelRecord, d)

\* TypeExportableRecord in which every struct becomes the top-level record
\* of its own fields
TypeExportableRecord_TopSelf(T, st, Context, VD, TopLevelRecord, d) ==
  IF GetRSSpecificType(T) # DataTypeUnknown THEN Ok(T, st)
  ELSE IF isUnionType(T)
    THEN Fail(ReportTypeError(Context, st, VD, T.decl,
                              "unions cannot be exported: '%0'"))
  ELSE IF ~isStructureType(T) THEN Fail(slangAssertFalse(st))
  ELSE LET RD == RecordDecl(T.decl)
       IN IF ~RD.hasDefinition
            THEN Fail(ReportTypeError(Context, st, NoVD, T.decl,
                                      "struct is not defined in this module"))
          ELSE IF RD.name = ""
            THEN Fail(ReportTypeError(Context, st, NoVD, T.decl,
                                      "anonymous structures cannot be exported"))
          ELSE IF RD.hasFlexibleArrayMember \/ RD.hasObjectMember THEN Fail(st)
          ELSE TypeExportableFields(T, RD, 1, [st EXCEPT !.SPS = @ \cup {T}],
                                    Context, VD, T.decl, d)

\* TypeExportableRecord without the rejection of anonymous structs
TypeExportableRecord_NoAnon(T, st, Context, VD, TopLevelRecord, d) ==
  IF GetRSSpecificType(T) # DataTypeUnknown THEN Ok(T, st)
  ELSE IF isUnionType(T)
    THEN Fail(ReportTypeError(Context, st, VD, T.decl,
                              "unions cannot be exported: '%0'"))
  ELSE IF ~isStructureType(T) THEN Fail(slangAssertFalse(st))
  ELSE LET RD == RecordDecl(T.decl)
           Top == IF TopLevelRecord = NoDecl THEN T.decl ELSE TopLevelRecord
       IN IF ~RD.hasDefinition
            THEN Fail(ReportTypeError(Context, st, NoVD, T.decl,
                                      "struct is not defined in this module"))
          ELSE IF RD.hasFlexibleArrayMember \/ RD.hasObjectMember THEN Fail(st)
          ELSE TypeExportableFields(T, RD, 1, [st EXCEPT !.SPS = @ \cup {T}],
                                    Context, VD, Top, d)

TypeExportableRecord(T, st, Context, VD, TopLevelRecord, d) ==
  IF GetRSSpecificType(T) # DataTypeUnknown THEN Ok(T, st)
  ELSE IF isUnionType(T)
    THEN Fail(ReportTypeError(Context, st, VD, T.decl,
                              "unions cannot be exported: '%0'"))
  ELSE IF ~isStructureType(T) THEN Fail(slangAssertFalse(st))
  ELSE LET RD == RecordDecl(T.decl)
           Top == IF TopLevelRecord = NoDecl THEN T.decl ELSE TopLevelRecord
       IN IF ~RD.hasDefinition
            THEN Fail(ReportTypeError(Context, st, NoVD, T.decl,
                                      "struct is not defined in this module"))
          ELSE IF RD.name = ""
            THEN Fail(ReportTypeError(Context, st, NoVD, T.decl,
                                      "anonymous structures cannot be exported"))
          ELSE IF RD.hasFlexibleArrayMember \/ RD.hasObjectMember THEN Fail(st)
          ELSE TypeExportableFields(T, RD, 1, [st EXCEPT !.SPS = @ \cup {T}],
                                    Context, VD, Top, d)

\* TypeExportablePointer without the rejection of pointers inside records
TypeExportablePointer_InRecord(T, st, Context, VD, TopLevelRecord, d) ==
  LET PointeeType == GetPointeeType(T)
  IN IF PointeeType.cls = "Pointer"
       THEN Fail(ReportTypeError(Context, st, VD, TopLevelRecord,
                   "multiple levels of pointers cannot be exported: '%0'"))
     ELSE IF isArrayType(PointeeType) THEN Fail(st)
     ELSE LET r == TypeExportableHelper(PointeeType, st, Context, VD,
                                        TopLevelRecord, d + 1)
          IN IF r.ret = NullT THEN Fail(r.st) ELSE Ok(T, r.st)

\* TypeExportablePointer without the rejection of a pointer to a pointer
TypeExportablePointer_Multi(T, st, Context, VD, TopLevelRecord, d) ==
  IF TopLevelRecord # NoDecl
    THEN Fail(ReportTypeError(Context, st, VD, TopLevelRecord,
                "structures containing pointers cannot be exported: '%0'"))
  ELSE LET PointeeType == GetPointeeType(T)
       IN IF isArrayType(PointeeType) THEN Fail(st)
          ELSE LET r == TypeExportableHelper(PointeeType, st, Context, VD,
                                             TopLevelRecord, d + 1)
               IN IF r.ret = NullT THEN Fail(r.st) ELSE Ok(T, r.st)

TypeExportablePointer(T, st, Context, VD, TopLevelRecord, d) ==
  IF TopLevelRecord # NoDecl
    THEN Fail(ReportTypeError(Context, st, VD, TopLevelRecord,
                "structures containing pointers cannot be exported: '%0'"))
  ELSE LET PointeeType == GetPointeeType(T)
       IN IF PointeeType.cls = "Pointer"
            THEN Fail(ReportTypeError(Context, st, VD, TopLevelRecord,
                        "multiple levels of pointers cannot be exported: '%0'"))
          ELSE IF isArrayType(PointeeType) THEN Fail(st)
          ELSE LET r == TypeExportableHelper(PointeeType, st, Context, VD,
                                             TopLevelRecord, d + 1)
               IN IF r.ret = NullT THEN Fail(r.st) ELSE Ok(T, r.st)

\* TypeExportableExtVector with the upper bound of the width off by one
TypeExportableExtVector_Width(T, st, Context, VD, TopLevelRecord, d) ==
  IF T.n < 2 \/ T.n > 5 THEN Fail(st)
  ELSE LET ElementType == GetExtVectorElementType(T)
       IN IF ElementType.cls # "Builtin" THEN Fail(st)
          ELSE LET r == TypeExportableHelper(ElementType, st, Context, VD,
                                             TopLevelRecord, d + 1)
               IN IF r.ret = NullT THEN Fail(r.st) ELSE Ok(T, r.st)

TypeExportableExtVector(T, st, Context, VD, TopLevelRecord, d) ==
  IF T.n < 2 \/ T.n > 4 THEN Fail(st)
  ELSE LET ElementType == GetExtVectorElementType(T)
       IN IF ElementType.cls # "Builtin" THEN Fail(st)
          ELSE LET r == TypeExportableHelper(ElementType, st, Context, VD,
                                             TopLevelRecord, d + 1)
               IN IF r.ret = NullT THEN Fail(r.st) ELSE Ok(T, r.st)

\* TypeExportableHelper that returns an enum type as it is
TypeExportableHelper_EnumKept(T0, st, Context, VD, TopLevelRecord, d) ==
  LET T == GetCanonicalType(T0)
  IN IF d > MaxDepth THEN Fail([st EXCEPT !.faults = @ \cup {"stack_overflow"}])
     ELSE IF T = NullT THEN Fail(st)
     ELSE IF T \in st.SPS THEN Ok(T, st)
     ELSE CASE T.cls = "Builtin" ->
                 IF FindBuiltinType(T.kind) = 0 THEN Fail(st) ELSE Ok(T, st)
            [] T.cls = "Record" ->
                 TypeExportableRecord(T, st, Context, VD, TopLevelRecord, d)
            [] T.cls = "Pointer" ->
                 TypeExportablePointer(T, st, Context, VD, TopLevelRecord, d)
            [] T.cls = "ExtVector" ->
                 TypeExportableExtVector(T, st, Context, VD, TopLevelRecord, d)
            [] T.cls = "ConstantArray" ->
                 ConstantArrayTypeExportableHelper(T, st, Context, VD,
                                                   TopLevelRecord, d)
            [] T.cls = "Enum" -> Ok(T, st)
            [] OTHER -> Fail(slangAssertFalse(st))

TypeExportableHelper(T0, st, Context, VD, TopLevelRecord, d) ==
  LET T == GetCanonicalType(T0)
  IN IF d > MaxDepth THEN Fail([st EXCEPT !.faults = @ \cup {"stack_overflow"}])
     ELSE IF T = NullT THEN Fail(st)
     ELSE IF T \in st.SPS THEN Ok(T, st)
     ELSE CASE T.cls = "Builtin" ->
                 IF FindBuiltinType(T.kind) = 0 THEN Fail(st) ELSE Ok(T, st)
            [] T.cls = "Record" ->
                 TypeExportableRecord(T, st, Context, VD, TopLevelRecord, d)
            [] T.cls = "Pointer" ->
                 TypeExportablePointer(T, st, Context, VD, TopLevelRecord, d)
            [] T.cls = "ExtVector" ->
                 TypeExportableExtVector(T, st, Context, VD, TopLevelRecord, d)
            [] T.cls = "ConstantArray" ->
                 ConstantArrayTypeExportableHelper(T, st, Context, VD,
                                                   TopLevelRecord, d)
            [] T.cls = "Enum" -> Ok(IntTy, st)
            [] OTHER -> Fail(slangAssertFalse(st))

TypeExportable(T, st, Context, VD) ==
  TypeExportableHelper(T, [st EXCEPT !.SPS = {}], Context, VD, NoDecl, 0)

(***************************************************************************)
(* Dialect Validator                                                       *)
(***************************************************************************)
hasLinkage(VD) == VD.linkage # "NoLinkage"

\* as ValidateRSObjectInVarDecl, the version test off by one
ValidateRSObjectInVarDecl_Api(st, VD, InCompositeType, TargetAPI) ==
  IF TargetAPI <= SLANG_JB_TARGET_API /\ InCompositeType
       /\ hasLinkage(VD) /\ VD.linkage = "ExternalLinkage"
       /\ GetCanonicalType(VD.type).cls # "Pointer"
    THEN [ok |-> FALSE,
          st |-> ReportTypeError(TRUE, st, VD, NoDecl,
                   "arrays/structures containing RS object types cannot be exported in target API < %1: '%0'")]
    ELSE [ok |-> TRUE, st |-> st]

\* as ValidateRSObjectInVarDecl, without the exemption of pointer variables
ValidateRSObjectInVarDecl_NoPointer(st, VD, InCompositeType, TargetAPI) ==
  IF TargetAPI < SLANG_JB_TARGET_API /\ InCompositeType
       /\ hasLinkage(VD) /\ VD.linkage = "ExternalLinkage"
    THEN [ok |-> FALSE,
          st |-> ReportTypeError(TRUE, st, VD, NoDecl,
                   "arrays/structures containing RS object types cannot be exported in target API < %1: '%0'")]
    ELSE [ok |-> TRUE, st |-> st]

ValidateRSObjectInVarDecl(st, VD, InCompositeType, TargetAPI) ==
  IF TargetAPI < SLANG_JB_TARGET_API /\ InCompositeType
       /\ hasLinkage(VD) /\ VD.linkage = "ExternalLinkage"
       /\ GetCanonicalType(VD.type).cls # "Pointer"
    THEN [ok |-> FALSE,
          st |-> ReportTypeError(TRUE, st, VD, NoDecl,
                   "arrays/structures containing RS object types cannot be exported in target API < %1: '%0'")]
    ELSE [ok |-> TRUE, st |-> st]

RECURSIVE ValidateTypeHelper(_, _, _, _, _, _, _, _)
RECURSIVE ValidateTypeFields(_, _, _, _, _, _, _, _)

\* The field loop of the Record case: fields i..Len of RD.
ValidateTypeFields(RD, i, st, ND, UnionDecl, TargetAPI, IsFilterscript, d) ==
  IF i > Len(RD.fields) THEN [ok |-> TRUE, st |-> st]
  ELSE LET FT == GetCanonicalType(GetTypeOfDecl(RD.fields[i]))
           r == ValidateTypeHelper(FT, st, ND, TRUE, UnionDecl, TargetAPI,
                                   IsFilterscript, d + 1)
       IN IF ~r.ok THEN r
          ELSE ValidateTypeFields(RD, i + 1, r.st, ND, UnionDecl, TargetAPI,
                                  IsFilterscript, d)

\* The Record case without the insertion of T into the visited set
ValidateTypeRecord_NoInsert(T, st, ND, InCompositeType, UnionDecl, TargetAPI, IsFilterscript, d) ==
  LET isObj == IsRSObjectType(GetRSSpecificType(T))
      v == IF isObj /\ ND.kind = "Var"
             THEN ValidateRSObjectInVarDecl(st, ND, InCompositeType, TargetAPI)
             ELSE [ok |-> TRUE, st |-> st]
      RD == RecordDecl(T.decl)
      UD == IF isUnionType(T) THEN T.decl ELSE UnionDecl
  IN IF ~v.ok THEN v
     ELSE IF GetRSSpecificType(T) # DataTypeUnknown /\ UnionDecl = NoDecl
       THEN [ok |-> TRUE, st |-> st]
     ELSE IF GetRSSpecificType(T) # DataTypeUnknown /\ isObj
       THEN [ok |-> FALSE,
             st |-> ReportTypeError(TRUE, st, NoVD, UnionDecl,
                      "unions containing RS object types are not allowed")]
     ELSE IF ~RD.hasDefinition THEN [ok |-> TRUE, st |-> st]
     ELSE IF RD.hasFlexibleArrayMember \/ RD.hasObjectMember
       THEN [ok |-> FALSE, st |-> st]
     ELSE ValidateTypeFields(RD, 1, [st EXCEPT !.visits = Append(@, T)], ND, UD,
                             TargetAPI, IsFilterscript, d)

\* The Record case of ValidateTypeHelper; visits lists the records whose
\* field loop was entered
ValidateTypeRecord(T, st, ND, InCompositeType, UnionDecl, TargetAPI, IsFilterscript, d) ==
  LET isObj == IsRSObjectType(GetRSSpecificType(T))
      v == IF isObj /\ ND.kind = "Var"
             THEN ValidateRSObjectInVarDecl(st, ND, InCompositeType, TargetAPI)
             ELSE [ok |-> TRUE, st |-> st]
      RD == RecordDecl(T.decl)
      UD == IF isUnionType(T) THEN T.decl ELSE UnionDecl
  IN IF ~v.ok THEN v
     ELSE IF GetRSSpecificType(T) # DataTypeUnknown /\ UnionDecl = NoDecl
       THEN [ok |-> TRUE, st |-> st]
     ELSE IF GetRSSpecificType(T) # DataTypeUnknown /\ isObj
       THEN [ok |-> FALSE,
             st |-> ReportTypeError(TRUE, st, NoVD, UnionDecl,
                      "unions containing RS object types are not allowed")]
     ELSE IF ~RD.hasDefinition THEN [ok |-> TRUE, st |-> st]
     ELSE IF RD.hasFlexibleArrayMember \/ RD.hasObjectMember
       THEN [ok |-> FALSE, st |-> st]
     ELSE ValidateTypeFields(RD, 1,
                             [st EXCEPT !.SPS = @ \cup {T}, !.visits = Append(@, T)],
                             ND, UD,
                             TargetAPI, IsFilterscript, d)

\* ValidateTypeHelper with the version test of the 3-vector rule off by one
ValidateTypeHelper_Vec3Api(T0, st, ND, InCompositeType, UnionDecl, TargetAPI, IsFilterscript, d) ==
  LET T == GetCanonicalType(T0)
      True == [ok |-> TRUE, st |-> st]
  IN IF d > MaxDepth
       THEN [ok |-> FALSE, st |-> [st EXCEPT !.faults = @ \cup {"stack_overflow"}]]
     ELSE IF T = NullT THEN True
     ELSE IF T \in st.SPS THEN True
     ELSE CASE T.cls = "Record" ->
                 ValidateTypeRecord(T, st, ND, InCompositeType, UnionDecl,
                                    TargetAPI, IsFilterscript, d)
            [] T.cls = "Builtin" ->
                 IF IsFilterscript
                      /\ T.kind \in {"Double", "LongDouble", "Long", "LongLong"}
                   THEN [ok |-> FALSE,
                         st |-> ReportError(TRUE, st,
                                  IF ND # NoVD
                                    THEN Diag("Builtin types > 32 bits in size are forbidden in Filterscript: '%0'",
                                              <<"loc", ND.name>>, ND.name)
                                    ELSE Diag("Builtin types > 32 bits in size are forbidden in Filterscript",
                                              <<"loc", "">>, ""))]
                   ELSE True
            [] T.cls = "Pointer" ->
                 IF IsFilterscript /\ ND # NoVD
                   THEN [ok |-> FALSE,
                         st |-> ReportError(TRUE, st,
                                  Diag("Pointers are forbidden in Filterscript: '%0'",
                                       <<"loc", ND.name>>, ND.name))]
                   ELSE ValidateTypeHelper(GetPointeeType(T), st, ND, InCompositeType,
                                           UnionDecl, TargetAPI, IsFilterscript, d + 1)
            [] T.cls = "ExtVector" ->
                 IF TargetAPI <= SLANG_ICS_TARGET_API /\ InCompositeType /\ T.n = 3
                      /\ ND # NoVD /\ ND.linkage = "ExternalLinkage"
                   THEN [ok |-> FALSE,
                         st |-> ReportTypeError(TRUE, st, ND, NoDecl,
                                  "structs containing vectors of dimension 3 cannot be exported at this API level: '%0'")]
                   ELSE ValidateTypeHelper(GetExtVectorElementType(T), st, ND, TRUE,
                                           UnionDecl, TargetAPI, IsFilterscript, d + 1)
            [] T.cls = "ConstantArray" ->
                 ValidateTypeHelper(GetConstantArrayElementType(T), st, ND, TRUE,
                                    UnionDecl, TargetAPI, IsFilterscript, d + 1)
            [] OTHER -> True

ValidateTypeHelper(T0, st, ND, InCompositeType, UnionDecl, TargetAPI, IsFilterscript, d) ==
  LET T == GetCanonicalType(T0)
      True == [ok |-> TRUE, st |-> st]
  IN IF d > MaxDepth
       THEN [ok |-> FALSE, st |-> [st EXCEPT !.faults = @ \cup {"stack_overflow"}]]
     ELSE IF T = NullT THEN True
     ELSE IF T \in st.SPS THEN True
     ELSE CASE T.cls = "Record" ->
                 ValidateTypeRecord(T, st, ND, InCompositeType, UnionDecl,
                                    TargetAPI, IsFilterscript, d)
            [] T.cls = "Builtin" ->
                 IF IsFilterscript
                      /\ T.kind \in {"Double", "LongDouble", "Long", "LongLong"}
                   THEN [ok |-> FALSE,
                         st |-> ReportError(TRUE, st,
                                  IF ND # NoVD
                                    THEN Diag("Builtin types > 32 bits in size are forbidden in Filterscript: '%0'",
                                              <<"loc", ND.name>>, ND.name)
                                    ELSE Diag("Builtin types > 32 bits in size are forbidden in Filterscript",
                                              <<"loc", "">>, ""))]
                   ELSE True
            [] T.cls = "Pointer" ->
                 IF IsFilterscript /\ ND # NoVD
                   THEN [ok |-> FALSE,
                         st |-> ReportError(TRUE, st,
                                  Diag("Pointers are forbidden in Filterscript: '%0'",
                                       <<"loc", ND.name>>, ND.name))]
                   ELSE ValidateTypeHelper(GetPointeeType(T), st, ND, InCompositeType,
                                           UnionDecl, TargetAPI, IsFilterscript, d + 1)
            [] T.cls = "ExtVector" ->
                 IF TargetAPI < SLANG_ICS_TARGET_API /\ InCompositeType /\ T.n = 3
                      /\ ND # NoVD /\ ND.linkage = "ExternalLinkage"
                   THEN [ok |-> FALSE,
                         st |-> ReportTypeError(TRUE, st, ND, NoDecl,
                                  "structs containing vectors of dimension 3 cannot be exported at this API level: '%0'")]
                   ELSE ValidateTypeHelper(GetExtVectorElementType(T), st, ND, TRUE,
                                           UnionDecl, TargetAPI, IsFilterscript, d + 1)
            [] T.cls = "ConstantArray" ->
                 ValidateTypeHelper(GetConstantArrayElementType(T), st, ND, TRUE,
                                    UnionDecl, TargetAPI, IsFilterscript, d + 1)
            [] OTHER -> True

\* RSExportType::ValidateType
ValidateType(T, ND, TargetAPI, IsFilterscript) ==
  ValidateTypeHelper(T, NewSt, ND, FALSE, NoDecl, TargetAPI, IsFilterscript, 0)

\* RSExportType::ValidateVarDecl
ValidateVarDecl(VD, TargetAPI, IsFilterscript) ==
  ValidateType(VD.type, VD, TargetAPI, IsFilterscript)

(***************************************************************************)
(* Type Normalizer: identity names                                         *)
(***************************************************************************)
RECURSIVE GetTypeNameR(_)
RECURSIVE NormalizeType(_, _, _, _)

\* RSExportType::GetTypeName; besides the name, the faults met on the way
\* (the pointer case runs NormalizeType with a null RSContext).
GetTypeNameR(T0) ==
  LET T == GetCanonicalType(T0)
      Empty == [name |-> <<>>, faults |-> {}]
  IN IF T = NullT THEN Empty
     ELSE CASE T.cls = "Builtin" ->
                 LET info == FindBuiltinType(T.kind)
                 IN IF info # 0
                      THEN [name |-> <<BuiltinInfoTable[info].cname[1]>>, faults |-> {}]
                      ELSE [name |-> <<>>, faults |-> {"assert"}]
            [] T.cls = "Record" -> [name |-> RecordTypeName(T), faults |-> {}]
            [] T.cls = "Pointer" ->
                 LET Pointee(r) ==
                       IF r.ok
                         THEN [name |-> <<"*">> \o r.TypeName, faults |-> r.st.faults]
                         ELSE [name |-> <<>>, faults |-> r.st.faults]
                 IN Pointee(NormalizeType(GetPointeeType(T), NewSt, FALSE, NoVD))
            [] T.cls = "ExtVector" -> [name |-> VectorGetTypeName(T), faults |-> {}]
            [] T.cls = "ConstantArray" ->
                 [name |-> <<"<", "ConstantArray", ">">>, faults |-> {}]
            [] OTHER -> Empty

GetTypeName(T) == GetTypeNameR(T).name

\* RSExportType::NormalizeType: T and TypeName are the out-parameters.
NormalizeType(T, st, Context, VD) ==
  LET Named(r, n) ==
        LET st1 == [r.st EXCEPT !.faults = @ \cup n.faults]
        IN IF Context /\ n.name = <<>>
             THEN [ok |-> FALSE, T |-> r.ret, TypeName |-> n.name,
                   st |-> ReportError(Context, st1,
                            Diag("anonymous types cannot be exported",
                                 IF VD # NoVD THEN <<"decl", VD.name>>
                                              ELSE <<"none", "">>, ""))]
             ELSE [ok |-> TRUE, T |-> r.ret, TypeName |-> n.name, st |-> st1]
      Checked(r) ==
        IF r.ret = NullT
          THEN [ok |-> FALSE, T |-> NullT, TypeName |-> <<>>, st |-> r.st]
          ELSE Named(r, GetTypeNameR(r.ret))
  IN Checked(TypeExportable(T, st, Context, VD))

(***************************************************************************)
(* Compilation context: the intern table and the descriptors               *)
(*                                                                         *)
(* A descriptor is an entry of heap; its identity is its index (0 is the   *)
(* null pointer).  The state cs of a compilation context is the intern     *)
(* table export_types (pairs of name and descriptor), the heap and the     *)
(* diagnostics record st.                                                  *)
(***************************************************************************)
\* RSContext::findExportType: the descriptor interned under the name, or 0
findExportType(cs, TypeName) ==
  LET hits == {e \in cs.export_types : e.name = TypeName}
  IN IF hits = {} THEN 0 ELSE (CHOOSE e \in hits : TRUE).obj

\* RSContext::insertExportType: the string map keeps an existing key
insertExportType(cs, TypeName, obj) ==
  IF \E e \in cs.export_types : e.name = TypeName THEN cs
  ELSE [cs EXCEPT !.export_types = @ \cup {[name |-> TypeName, obj |-> obj]}]

\* The fields of the six descriptor classes in one record; from is the
\* clang type the constructor was called for.  mLLVMType is 0 for nullptr
\* and 1 for a converted type; mKeep is the keep mark of RSExportable.
ExportType(Class, Name, from) ==
  [mClass |-> Class, mName |-> Name, mType |-> DataTypeUnknown,
   mNumElement |-> 0, mDim |-> 0, mPointeeType |-> 0, mElementType |-> 0,
   mSize |-> 0, mFields |-> <<>>, mIsPacked |-> FALSE, from |-> from,
   mLLVMType |-> 0, mKeep |-> FALSE]

\* The constructor interning every descriptor, dummy names included
NewExportType_InternAll(cs, desc) ==
  LET obj == Len(cs.heap) + 1
  IN [ret |-> obj,
      cs |-> insertExportType([cs EXCEPT !.heap = Append(@, desc)], desc.mName, obj)]

\* RSExportType::RSExportType, reached through a variant's constructor:
\* allocates the descriptor and interns it unless its name is a dummy name.
NewExportType(cs, desc) ==
  LET obj == Len(cs.heap) + 1
      cs1 == [cs EXCEPT !.heap = Append(@, desc)]
  IN [ret |-> obj,
      cs |-> IF ~IsDummyName(desc.mName)
               THEN insertExportType(cs1, desc.mName, obj)
               ELSE cs1]

Null(cs) == [ret |-> 0, cs |-> cs]

Report(cs, d) == [cs EXCEPT !.st = ReportError(TRUE, @, d)]

\* RSExportPrimitiveType::GetDataType
GetDataType(cs, T) ==
  IF T = NullT THEN [DT |-> DataTypeUnknown, cs |-> cs]
  ELSE CASE T.cls = "Builtin" ->
              LET info == FindBuiltinType(T.kind)
              IN IF info # 0
                   THEN [DT |-> BuiltinInfoTable[info].type, cs |-> cs]
                   ELSE [DT |-> DataTypeUnknown,
                         cs |-> Report(cs, Diag("built-in type cannot be exported: '%0'",
                                                <<"none", "">>, T.cls))]
         [] T.cls = "Record" -> [DT |-> GetRSSpecificType(T), cs |-> cs]
         [] OTHER -> [DT |-> DataTypeUnknown,
                      cs |-> Report(cs, Diag("primitive type cannot be exported: '%0'",
                                             <<"none", "">>, T.cls))]

\* RSExportPrimitiveType::Create(Context, T, TypeName, Normalized)
PrimitiveCreate3(cs, T, TypeName) ==
  LET g == GetDataType(cs, T)
  IN IF g.DT = DataTypeUnknown \/ TypeName = <<>> THEN Null(g.cs)
     ELSE NewExportType(g.cs, [ExportType("ExportClassPrimitive", TypeName, T)
                                EXCEPT !.mType = g.DT])

\* RSExportPrimitiveType::Create(Context, T)
PrimitiveCreate(cs, T) ==
  LET WithName(n) ==
        LET cs1 == [cs EXCEPT !.st = n.st]
        IN IF n.ok /\ IsPrimitiveType(n.T) THEN PrimitiveCreate3(cs1, n.T, n.TypeName)
           ELSE Null(cs1)
  IN WithName(NormalizeType(T, cs.st, TRUE, NoVD))

\* RSExportVectorType::Create
VectorCreate(cs, EVT, TypeName) ==
  LET g == GetDataType(cs, GetExtVectorElementType(EVT))
  IN IF g.DT # DataTypeUnknown
       THEN NewExportType(g.cs, [ExportType("ExportClassVector", TypeName, EVT)
                                  EXCEPT !.mType = g.DT, !.mNumElement = EVT.n])
       ELSE Null(g.cs)

\* RSExportMatrixType::Create comparing the array size with Dim, not Dim * Dim
MatrixCreate_Size(cs, RT, TypeName, Dim) ==
  LET RD == RecordDecl(RT.decl)
      bad(msg) == Null(Report(cs, Diag(msg, <<"record", RT.decl>>, RD.name)))
      made == NewExportType(cs, [ExportType("ExportClassMatrix", TypeName, RT)
                                  EXCEPT !.mDim = Dim])
  IN IF ~RD.hasDefinition THEN made
     ELSE IF Len(RD.fields) = 0 THEN bad("invalid matrix struct")
     ELSE LET FT == GetTypeOfDecl(RD.fields[1])
          IN IF FT = NullT \/ FT.cls # "ConstantArray" THEN bad("invalid matrix struct")
             ELSE LET ElementType == GetConstantArrayElementType(FT)
                  IN IF ElementType = NullT \/ ElementType.cls # "Builtin"
                          \/ ElementType.kind # "Float"
                       THEN bad("invalid matrix struct")
                     ELSE IF FT.size < Dim * Dim - 1 THEN bad("invalid matrix struct")
                     ELSE IF Len(RD.fields) # 1 THEN bad("invalid matrix struct")
                     ELSE made

\* RSExportMatrixType::Create
MatrixCreate(cs, RT, TypeName, Dim) ==
  LET RD == RecordDecl(RT.decl)
      bad(msg) == Null(Report(cs, Diag(msg, <<"record", RT.decl>>, RD.name)))
      made == NewExportType(cs, [ExportType("ExportClassMatrix", TypeName, RT)
                                  EXCEPT !.mDim = Dim])
  IN IF ~RD.hasDefinition THEN made
     ELSE IF Len(RD.fields) = 0
       THEN bad("invalid matrix struct: must have 1 field for saving values: '%0'")
     ELSE LET FT == GetTypeOfDecl(RD.fields[1])
          IN IF FT = NullT \/ FT.cls # "ConstantArray"
               THEN bad("invalid matrix struct: first field should be an array with constant size: '%0'")
             ELSE LET ElementType == GetConstantArrayElementType(FT)
                  IN IF ElementType = NullT \/ ElementType.cls # "Builtin"
                          \/ ElementType.kind # "Float"
                       THEN bad("invalid matrix struct: first field should be a float array: '%0'")
                     ELSE IF FT.size # Dim * Dim
                       THEN bad("invalid matrix struct: first field should be an array with size %0: '%1'")
                     ELSE IF Len(RD.fields) # 1
                       THEN bad("invalid matrix struct: must have exactly 1 field: '%0'")
                     ELSE made

RECURSIVE Create3(_, _, _)
RECURSIVE Create(_, _)
RECURSIVE RecordCreateFields(_, _, _, _)

\* RSExportPointerType::Create
PointerCreate(cs, PT, TypeName) ==
  LET PointeeType == GetPointeeType(PT)
      Pointing(p) ==
        IF p.ret = 0 THEN Null(p.cs)
        ELSE NewExportType(p.cs, [ExportType("ExportClassPointer", TypeName, PT)
                                   EXCEPT !.mPointeeType = p.ret])
  IN Pointing(IF PointeeType.cls # "Pointer" THEN Create(cs, PointeeType)
              ELSE PrimitiveCreate(cs, IntTy))

\* RSExportConstantArrayType::Create
ConstantArrayCreate(cs, CAT) ==
  LET cs0 == IF CAT.size > 0 THEN cs
             ELSE [cs EXCEPT !.st = slangAssertFalse(@)]
      ArrayOf(e) ==
        IF e.ret = 0 THEN Null(e.cs)
        ELSE NewExportType(e.cs,
               [ExportType("ExportClassConstantArray", <<"<", "ConstantArray", ">">>, CAT)
                 EXCEPT !.mElementType = e.ret, !.mSize = CAT.size])
  IN ArrayOf(Create(cs0, GetConstantArrayElementType(CAT)))

\* RSExportElement::CreateFromDecl: the descriptor of a field's type
CreateFromDecl(cs, FD) == Create(cs, GetTypeOfDecl(FD))

\* The field loop of RSExportRecordType::Create: fields i..Len of RD are
\* appended to the record descriptor ERT.
RecordCreateFields(cs, RT, ERT, i) ==
  LET RD == RecordDecl(RT.decl)
  IN IF i > Len(RD.fields) THEN [ret |-> ERT, cs |-> cs]
     ELSE LET FD == RD.fields[i]
          IN IF FD.isBitField THEN Null(cs)
             ELSE LET Added(f) ==
                        IF f.ret # 0
                          THEN RecordCreateFields(
                                 [f.cs EXCEPT !.heap[ERT].mFields =
                                    Append(@, [type |-> f.ret, name |-> FD.name])],
                                 RT, ERT, i + 1)
                          ELSE Null(Report(f.cs,
                                 Diag("field type cannot be exported: '%0.%1'",
                                      <<"record", RT.decl>>, RD.name)))
                  IN Added(CreateFromDecl(cs, FD))

\* RSExportRecordType::Create: the descriptor is constructed, and thereby
\* interned, before its fields are created.
RecordCreate(cs, RT, TypeName) ==
  LET RD == RecordDecl(RT.decl)
  IN IF ~RD.hasDefinition THEN Null([cs EXCEPT !.st = slangAssertFalse(@)])
     ELSE LET n == NewExportType(cs, [ExportType("ExportClassRecord", TypeName, RT)
                                       EXCEPT !.mIsPacked = RD.isPacked])
          IN RecordCreateFields(n.cs, RT, n.ret, 1)

\* Create(Context, T, TypeName) that constructs without the lookup
Create3_NoLookup(cs, T, TypeName) ==
  CASE T.cls = "Record" ->
         LET dt == GetRSSpecificTypeByName(TypeName)
         IN CASE dt = DataTypeUnknown -> RecordCreate(cs, T, TypeName)
              [] dt = DataTypeRSMatrix2x2 -> MatrixCreate(cs, T, TypeName, 2)
              [] dt = DataTypeRSMatrix3x3 -> MatrixCreate(cs, T, TypeName, 3)
              [] dt = DataTypeRSMatrix4x4 -> MatrixCreate(cs, T, TypeName, 4)
              [] OTHER -> PrimitiveCreate3(cs, T, TypeName)
    [] T.cls = "Builtin" -> PrimitiveCreate3(cs, T, TypeName)
    [] T.cls = "Pointer" -> PointerCreate(cs, T, TypeName)
    [] T.cls = "ExtVector" -> VectorCreate(cs, T, TypeName)
    [] T.cls = "ConstantArray" -> ConstantArrayCreate(cs, T)
    [] OTHER -> Null(Report(cs, Diag("unknown type cannot be exported: '%0'",
                                     <<"none", "">>, T.cls)))

\* RSExportType::Create(Context, T, TypeName)
Create3(cs, T, TypeName) ==
  LET ETI == findExportType(cs, TypeName)
  IN IF ETI # 0 THEN [ret |-> ETI, cs |-> cs]
     ELSE CASE T.cls = "Record" ->
                 LET dt == GetRSSpecificTypeByName(TypeName)
                 IN CASE dt = DataTypeUnknown -> RecordCreate(cs, T, TypeName)
                      [] dt = DataTypeRSMatrix2x2 -> MatrixCreate(cs, T, TypeName, 2)
                      [] dt = DataTypeRSMatrix3x3 -> MatrixCreate(cs, T, TypeName, 3)
                      [] dt = DataTypeRSMatrix4x4 -> MatrixCreate(cs, T, TypeName, 4)
                      [] OTHER -> PrimitiveCreate3(cs, T, TypeName)
            [] T.cls = "Builtin" -> PrimitiveCreate3(cs, T, TypeName)
            [] T.cls = "Pointer" -> PointerCreate(cs, T, TypeName)
            [] T.cls = "ExtVector" -> VectorCreate(cs, T, TypeName)
            [] T.cls = "ConstantArray" -> ConstantArrayCreate(cs, T)
            [] OTHER -> Null(Report(cs, Diag("unknown type cannot be exported: '%0'",
                                             <<"none", "">>, T.cls)))

\* RSExportType::Create(Context, T)
Create(cs, T) ==
  LET WithName(n) ==
        LET cs1 == [cs EXCEPT !.st = n.st]
        IN IF n.ok THEN Create3(cs1, n.T, n.TypeName) ELSE Null(cs1)
  IN WithName(NormalizeType(T, cs.st, TRUE, NoVD))

(***************************************************************************)
(* The types offered to the operations                                     *)
(***************************************************************************)
TableKinds == {BuiltinInfoTable[i].builtinTypeKind : i \in 1..BuiltinInfoTableCount}
OtherKinds == {"Void", "WChar_S", "WChar_U", "Half", "LongDouble"}
BuiltinKinds == TableKinds \cup OtherKinds

BuiltinTypes == {BuiltinT(k) : k \in BuiltinKinds}
RecordTypes == {RecordT(d) : d \in DeclIds}
\* void is no element type of a vector or an array
VectorTypes ==
  {ExtVectorT(e, n) : e \in (BuiltinTypes \ {BuiltinT("Void")}) \cup {EnumT},
                      n \in 1..MaxVecLen}
ElementTypes == BuiltinTypes \cup {EnumT} \cup RecordTypes \cup VectorTypes
ArrayTypes ==
  {ConstantArrayT(e, s) : e \in ElementTypes \ {BuiltinT("Void")}, s \in 0..MaxArrayLen}
  \cup {ConstantArrayT(ConstantArrayT(BuiltinT("Int"), 2), s) : s \in 1..MaxArrayLen}
PointerTypes ==
  {PointerT(p) : p \in ElementTypes}
  \cup {PointerT(ConstantArrayT(BuiltinT("Int"), 2)), PointerT(PointerT(BuiltinT("Int"))),
        PointerT(PointerT(RecordT("Point")))}
\* type classes the switch statements do not name
OtherTypes == {[cls |-> "FunctionProto"], IncompleteArrayT(BuiltinT("Int"))}

AllTypes == ElementTypes \cup ArrayTypes \cup PointerTypes \cup OtherTypes

VarDecls(T) == {NoVD, VarDecl("v", T, "ExternalLinkage")}

NotRun == [op |-> "none"]

\* One call of RSExportType::Create(Context, T).  The log keeps, per call,
\* the type asked for, its identity name, the descriptor returned, the type
\* NormalizeType made of it, the diagnostics of the call and the intern
\* table before the call.
CreateCall(T) ==
  /\ Len(log) < MaxCalls
  /\ LET Logged(r, n) ==
           /\ export_types' = r.cs.export_types
           /\ heap' = r.cs.heap
           /\ log' = Append(log, [T |-> T,
                                  name |-> IF n.ok THEN n.TypeName ELSE GetTypeName(T),
                                  ret |-> r.ret,
                                  canon |-> n.T,
                                  diags |-> r.cs.st.diags,
                                  faults |-> r.cs.st.faults,
                                  before |-> export_types,
                                  heapBefore |-> Len(heap)])
     IN Logged(Create([export_types |-> export_types, heap |-> heap, st |-> NewSt], T),
               NormalizeType(T, NewSt, TRUE, NoVD))
  /\ UNCHANGED <<inp, out, is64Bit>>

(***************************************************************************)
(* Specification of the analyzer: one NormalizeType call on a drawn type,  *)
(* and then one Create call on it                                          *)
(***************************************************************************)
InitExport ==
  /\ inp \in UNION {{[T |-> T, VD |-> VD] : VD \in VarDecls(T)} : T \in AllTypes}
  /\ out = NotRun
  /\ is64Bit = FALSE
  /\ export_types = {}
  /\ heap = <<>>
  /\ log = <<>>

NormalizeTypeCall ==
  /\ out = NotRun
  /\ LET r == NormalizeType(inp.T, NewSt, TRUE, inp.VD)
     IN out' = [op |-> "NormalizeType", ok |-> r.ok, T |-> r.T,
                TypeName |-> r.TypeName, diags |-> r.st.diags,
                faults |-> r.st.faults]
  /\ UNCHANGED <<inp, is64Bit, export_types, heap, log>>

\* After the analysis, one RSExportType::Create(Context, T) on the same type.
CreateAfterNormalize == out # NotRun /\ log = <<>> /\ CreateCall(inp.T)

NextExport == NormalizeTypeCall \/ CreateAfterNormalize

SpecExport == InitExport /\ [][NextExport]_vars

(***************************************************************************)
(* Properties of the Exportability Analyzer (SpecExport)                   *)
(***************************************************************************)
Normalized == out.op = "NormalizeType"
Accepted == Normalized /\ out.T # NullT
Rejected == Normalized /\ out.T = NullT
Terminated == Normalized /\ "stack_overflow" \notin out.faults

\* a struct with a definition one of whose fields is a pointer to the struct
SelfPointing(T) ==
  /\ T.cls = "Record"
  /\ isStructureType(T)
  /\ RecordDecl(T.decl).hasDefinition
  /\ \E i \in 1..Len(RecordDecl(T.decl).fields) :
        RecordDecl(T.decl).fields[i].type = PointerT(T)

C6_VectorBounds ==
  (Normalized /\ inp.T.cls = "ExtVector") =>
     /\ (inp.T.n < 2 \/ inp.T.n > 4) => out.T = NullT
     /\ (inp.T.n \in 2..4 /\ inp.T.elem.cls = "Builtin"
           /\ inp.T.elem.kind \in TableKinds) => (out.T = inp.T /\ out.ok)
     /\ inp.T.elem.cls # "Builtin" => out.T = NullT

C6_Witness ==
  /\ Normalized
  /\ inp.T = ExtVectorT(BuiltinT("Float"), kMaxVectorSize + 1)
  /\ inp.VD # NoVD
  /\ out.T = NullT

IsVecArray(T) ==
  T.cls = "ConstantArray" /\ T.elem.cls = "ExtVector" /\ T.elem.elem.cls = "Builtin"

\* C7 as stated: an array of 3-element vectors of builtin elements is
\* accepted iff its length is 1; arrays of 2- and 4-element vectors are
\* accepted for every length; an array of arrays is rejected.
C7_Original ==
  (Normalized /\ inp.T.cls = "ConstantArray") =>
     /\ (IsVecArray(inp.T) /\ inp.T.elem.n = 3) =>
           (out.T = inp.T <=> inp.T.size = 1)
     /\ (IsVecArray(inp.T) /\ inp.T.elem.n \in {2, 4}) => out.T = inp.T
     /\ isArrayType(inp.T.elem) => out.T = NullT

\* C7 amended: the same, for vectors whose builtin element kind is one of
\* BuiltinInfoTable; a vector of any other builtin kind (long double, half,
\* wchar) makes the array rejected whatever its length.
C7_ArrayOfVec3 ==
  (Normalized /\ inp.T.cls = "ConstantArray") =>
     /\ (IsVecArray(inp.T) /\ inp.T.elem.elem.kind \in TableKinds
           /\ inp.T.elem.n = 3) => (out.T = inp.T <=> inp.T.size = 1)
     /\ (IsVecArray(inp.T) /\ inp.T.elem.elem.kind \in TableKinds
           /\ inp.T.elem.n \in {2, 4}) => out.T = inp.T
     /\ (IsVecArray(inp.T) /\ inp.T.elem.elem.kind \notin TableKinds) =>
           out.T = NullT
     /\ isArrayType(inp.T.elem) => out.T = NullT

C7_Witness ==
  /\ Normalized
  /\ inp.T = ConstantArrayT(ExtVectorT(BuiltinT("Float"), 3), 2)
  /\ out.T = NullT
  /\ Len(out.diags) = 1

(***************************************************************************)
(* Descriptor operations                                                   *)
(***************************************************************************)
\* RSExportable::equals: E is not null and of the same exportable kind;
\* every descriptor is of kind EX_TYPE.
ExportableEquals(h, this, E) == E # 0

\* RSExportType::equals
TypeEquals(h, this, E) ==
  ExportableEquals(h, this, E) /\ h[E].mClass = h[this].mClass

\* RSExportPrimitiveType::equals without the equality of the parent class
PrimitiveEquals_NoParent(h, this, E) ==
  ExportableEquals(h, this, E) /\ h[E].mType = h[this].mType

\* RSExportPrimitiveType::equals
PrimitiveEquals(h, this, E) ==
  TypeEquals(h, this, E) /\ h[E].mType = h[this].mType

RECURSIVE equals(_, _, _)

\* equals() that compares the classes only
equals_ClassOnly(h, this, E) == TypeEquals(h, this, E)

\* The virtual equals(), dispatched on the class of this.
equals(h, this, E) ==
  CASE h[this].mClass = "ExportClassPrimitive" -> PrimitiveEquals(h, this, E)
    [] h[this].mClass = "ExportClassVector" ->
         PrimitiveEquals(h, this, E) /\ h[E].mNumElement = h[this].mNumElement
    [] h[this].mClass = "ExportClassPointer" ->
         TypeEquals(h, this, E)
           /\ equals(h, h[E].mPointeeType, h[this].mPointeeType)
    [] h[this].mClass = "ExportClassMatrix" ->
         TypeEquals(h, this, E) /\ h[E].mDim = h[this].mDim
    [] h[this].mClass = "ExportClassConstantArray" ->
         TypeEquals(h, this, E)
           /\ h[this].mSize = h[E].mSize
           /\ equals(h, h[this].mElementType, h[E].mElementType)
    [] h[this].mClass = "ExportClassRecord" ->
         TypeEquals(h, this, E)
           /\ Len(h[E].mFields) = Len(h[this].mFields)
           /\ \A i \in 1..Len(h[this].mFields) :
                 equals(h, h[this].mFields[i].type, h[E].mFields[i].type)

\* GetSizeInBits that forgets the pointer width
GetSizeInBits_Table(EPT, Is64Bit) == gReflectionTypes[EPT.mType + 1].size_in_bits

\* RSExportPrimitiveType::GetSizeInBits
GetSizeInBits(EPT, Is64Bit) ==
  IF IsRSObjectType(EPT.mType) /\ Is64Bit THEN 256
  ELSE gReflectionTypes[EPT.mType + 1].size_in_bits

(***************************************************************************)
(* Specification of the factory: a compilation context serving a sequence  *)
(* of RSExportType::Create(Context, T) calls                               *)
(***************************************************************************)
CreateTypes ==
  {BuiltinT("Int"), BuiltinT("UInt"), BuiltinT("ULong"), BuiltinT("Float"), EnumT,
   ExtVectorT(BuiltinT("Float"), 2), ExtVectorT(BuiltinT("Float"), 3),
   ExtVectorT(BuiltinT("Float"), 5),
   RecordT("Point"), RecordT("S_uint"), RecordT("S_float2"), RecordT("Outer"),
   RecordT("HasBadMat"), RecordT("HasMat"), RecordT("HasObj"), RecordT("U"),
   RecordT("M2"), RecordT("M3"), RecordT("M3_8"), RecordT("M4_fwd"),
   RecordT("M4_two"), RecordT("M2_td"), RecordT("M2_int"), RecordT("M2_scalar"),
   RecordT("M2_empty"), RecordT("rs_element"),
   ConstantArrayT(BuiltinT("Int"), 2), ConstantArrayT(RecordT("Point"), 2),
   ConstantArrayT(RecordT("HasBadMat"), 1),
   ConstantArrayT(ExtVectorT(BuiltinT("Float"), 3), 1),
   PointerT(BuiltinT("Int")), PointerT(EnumT), PointerT(RecordT("Point")),
   PointerT(RecordT("M3_8")),
   RecordT("Point2"), RecordT("PointAB"), RecordT("PointP"), RecordT("Point3"),
   RecordT("PointFI"), RecordT("HasEnum"), ConstantArrayT(EnumT, 2),
   ConstantArrayT(BuiltinT("Int"), 0), PointerT(RecordT("Point2"))}

Init ==
  /\ inp = NotRun
  /\ out = NotRun
  /\ is64Bit \in BOOLEAN
  /\ export_types = {}
  /\ heap = <<>>
  /\ log = <<>>

Next == \E T \in CreateTypes : CreateCall(T)

Spec == Init /\ [][Next]_vars

(***************************************************************************)
(* Properties of the factory (Spec)                                        *)
(***************************************************************************)
Calls == 1..Len(log)

\* the intern table after call i
TableAfter(i) == IF i < Len(log) THEN log[i + 1].before ELSE export_types

\* C1: any two Create calls that return a descriptor for types of the same
\* identity name, the name not being a placeholder, return the same
\* descriptor object, and the intern table holds one descriptor per name.
C1_InterningIdempotent ==
  /\ \A i, j \in Calls :
        (log[i].ret # 0 /\ log[j].ret # 0 /\ log[i].name = log[j].name
           /\ ~IsDummyName(log[i].name)) => log[i].ret = log[j].ret
  /\ \A e1, e2 \in export_types : e1.name = e2.name => e1 = e2

C1_Witness ==
  /\ Len(log) = 2
  /\ log[1].T # log[2].T
  /\ log[1].name = log[2].name
  /\ ~IsDummyName(log[1].name)
  /\ log[1].ret # 0
  /\ log[2].ret = log[1].ret

\* the variant a type's shape calls for; a struct bearing the name of a
\* runtime-object type is described by a Primitive of that data type
ShapeClass(T) ==
  CASE T.cls \in {"Builtin", "Enum"} -> "ExportClassPrimitive"
    [] T.cls = "Pointer" -> "ExportClassPointer"
    [] T.cls = "ExtVector" -> "ExportClassVector"
    [] T.cls = "ConstantArray" -> "ExportClassConstantArray"
    [] T.cls = "Record" ->
         IF IsRSMatrixType(GetRSSpecificType(T)) THEN "ExportClassMatrix"
         ELSE IF IsRSObjectType(GetRSSpecificType(T)) THEN "ExportClassPrimitive"
         ELSE "ExportClassRecord"
    [] OTHER -> "none"

\* C2: Create(T) returns a descriptor whose variant tag matches the shape of
\* T, after any earlier Create calls, and two types of different shape never
\* share a descriptor, even when their identity names are equal.
C2_OneDescriptorPerShape ==
  /\ \A i \in Calls :
        log[i].ret # 0 => heap[log[i].ret].mClass = ShapeClass(log[i].T)
  /\ \A i, j \in Calls :
        (log[i].ret # 0 /\ log[i].ret = log[j].ret) =>
           ShapeClass(log[i].T) = ShapeClass(log[j].T)

\* C3: when Create(T) returns null the intern table has no entry for the
\* name of T, and a later Create(T) returns null again.
C3_RegistrationAfterConstruction ==
  \A i \in Calls :
     (log[i].ret = 0 /\ log[i].name # <<>>) =>
        /\ ~\E e \in TableAfter(i) : e.name = log[i].name
        /\ \A j \in Calls : (j > i /\ log[j].T = log[i].T) => log[j].ret = 0

\* C4: no key of the intern table is a placeholder name; a Create of a
\* constant-array type that returns a descriptor returns a freshly
\* constructed one, so two Create calls on one array type return distinct
\* descriptors, which are equals() in both directions.
C4_PlaceholdersNotInterned ==
  /\ \A e \in export_types : ~IsDummyName(e.name)
  /\ \A i \in Calls :
        (log[i].T.cls = "ConstantArray" /\ log[i].ret # 0) =>
           /\ log[i].name = <<"<", "ConstantArray", ">">>
           /\ log[i].ret > log[i].heapBefore
  /\ \A i, j \in Calls :
        (i < j /\ log[i].T.cls = "ConstantArray" /\ log[i].T = log[j].T
           /\ log[i].ret # 0 /\ log[j].ret # 0) =>
           /\ log[i].ret # log[j].ret
           /\ equals(heap, log[i].ret, log[j].ret)
           /\ equals(heap, log[j].ret, log[i].ret)

C4_Witness ==
  /\ Len(log) = 2
  /\ log[1].T = ConstantArrayT(RecordT("Point"), 2)
  /\ log[2].T = log[1].T
  /\ log[1].ret # 0
  /\ log[2].ret # 0
  /\ log[2].ret # log[1].ret

\* the struct of a matrix type as RSExportMatrixType expects it: exactly one
\* field, a constant array of Dim * Dim floats
MatrixShaped(T, Dim) ==
  /\ T.cls = "Record"
  /\ Len(RecordDecl(T.decl).fields) = 1
  /\ RecordDecl(T.decl).fields[1].type = ConstantArrayT(BuiltinT("Float"), Dim * Dim)

\* a struct named rs_matrix3x3 with a single field, an array of n floats
\* declared as such
Matrix3With(T, n) ==
  /\ T.cls = "Record"
  /\ RecordTypeName(T) = <<"rs_matrix3x3">>
  /\ RecordDecl(T.decl).hasDefinition
  /\ Len(RecordDecl(T.decl).fields) = 1
  /\ GetTypeOfDecl(RecordDecl(T.decl).fields[1]) = ConstantArrayT(BuiltinT("Float"), n)

IsMatrix(obj) == heap[obj].mClass = "ExportClassMatrix"

\* C9 as stated: every Matrix descriptor has a dimension N of 2, 3 or 4 and
\* was built from a struct with exactly one field, a constant array of N * N
\* floats; Create of a struct rs_matrix3x3 with an array of 8 reports a
\* diagnostic and returns null, with an array of 9 it returns a Matrix
\* descriptor of dimension 3.
C9_Original ==
  /\ \A obj \in 1..Len(heap) :
        IsMatrix(obj) => /\ heap[obj].mDim \in {2, 3, 4}
                         /\ MatrixShaped(heap[obj].from, heap[obj].mDim)
  /\ \A i \in Calls :
        Matrix3With(log[i].T, 8) => (log[i].ret = 0 /\ log[i].diags # <<>>)
  /\ \A i \in Calls :
        Matrix3With(log[i].T, 9) =>
           (log[i].ret # 0 /\ IsMatrix(log[i].ret) /\ heap[log[i].ret].mDim = 3)

\* C9 amended: every Matrix descriptor has a dimension N of 2, 3 or 4 and,
\* when the struct it was built from has a definition, that struct has
\* exactly one field, a constant array of N * N floats (a struct without
\* definition is taken on trust); the first Create under the name
\* rs_matrix3x3, for a struct with an array of 8, reports a diagnostic and
\* returns null and interns nothing; Create for an array of 9 returns a
\* Matrix descriptor of dimension 3.
C9_MatrixShape ==
  /\ \A obj \in 1..Len(heap) :
        IsMatrix(obj) =>
           /\ heap[obj].mDim \in {2, 3, 4}
           /\ RecordDecl(heap[obj].from.decl).hasDefinition =>
                 MatrixShaped(heap[obj].from, heap[obj].mDim)
  /\ \A i \in Calls :
        (Matrix3With(log[i].T, 8)
           /\ ~\E e \in log[i].before : e.name = <<"rs_matrix3x3">>) =>
           /\ log[i].ret = 0
           /\ Len(log[i].diags) = 1
           /\ ~\E e \in TableAfter(i) : e.name = <<"rs_matrix3x3">>
  /\ \A i \in Calls :
        Matrix3With(log[i].T, 9) =>
           (log[i].ret # 0 /\ IsMatrix(log[i].ret) /\ heap[log[i].ret].mDim = 3)

C9_Witness ==
  /\ Len(log) = 2
  /\ log[1].T = RecordT("M3_8")
  /\ log[1].ret = 0
  /\ log[2].T = RecordT("M3")
  /\ log[2].ret # 0
  /\ heap[log[2].ret].mDim = 3

(***************************************************************************)
(* Specification of the size query: a context of either pointer width      *)
(* creates the descriptor of one type and asks for its size in bits        *)
(***************************************************************************)
SizeTypes ==
  {BuiltinT(k) : k \in TableKinds}
  \cup {RecordT(d) : d \in ObjectNames}
  \cup {ExtVectorT(BuiltinT(k), n) : k \in {"Float", "Double", "UChar"}, n \in 2..4}
  \cup {EnumT}
  \cup {ConstantArrayT(BuiltinT("Int"), n) : n \in 1..MaxArrayLen}
  \cup {RecordT("Point"), RecordT("M3"), PointerT(BuiltinT("Int"))}

\* RSExportPrimitiveType::GetSizeInBits(EPT) on a Primitive or Vector
\* descriptor of the context
GetSizeInBitsCall(obj) ==
  /\ out = NotRun
  /\ heap[obj].mClass \in {"ExportClassPrimitive", "ExportClassVector"}
  /\ out' = [op |-> "GetSizeInBits", obj |-> obj,
             bits |-> GetSizeInBits(heap[obj], is64Bit)]
  /\ UNCHANGED <<inp, is64Bit, export_types, heap, log>>

\* The virtual getSize(), dispatched on the class of this: the Vector class
\* inherits the Primitive's, the others but ConstantArray the base's.
getSize(h, this, Is64Bit) ==
  CASE h[this].mClass \in {"ExportClassPrimitive", "ExportClassVector"} ->
         GetSizeInBits(h[this], Is64Bit) \div 8
    [] h[this].mClass = "ExportClassConstantArray" -> h[this].mSize
    [] OTHER -> 1

\* getSize() on a descriptor of the context
GetSizeCall(obj) ==
  /\ out = NotRun
  /\ out' = [op |-> "getSize", obj |-> obj, size |-> getSize(heap, obj, is64Bit)]
  /\ UNCHANGED <<inp, is64Bit, export_types, heap, log>>

NextSize ==
  \/ \E T \in SizeTypes : log = <<>> /\ CreateCall(T)
  \/ \E obj \in 1..Len(heap) : GetSizeInBitsCall(obj)
  \/ \E obj \in 1..Len(heap) : GetSizeCall(obj)

SpecSize == Init /\ [][NextSize]_vars

ObjectDataTypes == DataTypeRSElement..DataTypeRSFont

\* the type name MatrixAndObjectDataTypes gives a data type
NameOfDataType(DT) ==
  (CHOOSE e \in {MatrixAndObjectDataTypes[i] : i \in 1..MatrixAndObjectDataTypesCount} :
      e.dataType = DT).name

\* C8: the size in bits of the Primitive descriptor of a runtime-object data
\* type (RS_ELEMENT .. RS_FONT) is 32 in a 32-bit context and 256 in a 64-bit
\* context, the descriptor being a Primitive of the object's name in both;
\* the size of every other data type is the size_in_bits of gReflectionTypes
\* whatever the pointer width.
C8_ObjectSizeDuality ==
  out.op = "GetSizeInBits" =>
     LET EPT == heap[out.obj]
     IN IF EPT.mType \in ObjectDataTypes
          THEN /\ out.bits = IF is64Bit THEN 256 ELSE 32
               /\ EPT.mClass = "ExportClassPrimitive"
               /\ EPT.mName = <<NameOfDataType(EPT.mType)>>
          ELSE /\ EPT.mType \in 0..(DataTypeRSElement - 1)
               /\ out.bits = gReflectionTypes[EPT.mType + 1].size_in_bits

C8_Witness ==
  /\ out.op = "GetSizeInBits"
  /\ is64Bit
  /\ heap[out.obj].mType = DataTypeRSFont
  /\ out.bits = 256

(***************************************************************************)
(* Specification of the validator: one ValidateVarDecl call on a drawn     *)
(* variable declaration, or one ValidateType call on its type, at a drawn  *)
(* target API level and dialect                                            *)
(***************************************************************************)
ValidateTypes ==
  RecordTypes
  \cup {BuiltinT(k) : k \in {"Int", "Float", "Double", "Long", "ULong", "LongDouble",
                              "LongLong", "ULongLong"}}
  \cup {EnumT}
  \cup {ExtVectorT(BuiltinT(k), n) : k \in {"Float", "Double"}, n \in 2..4}
  \cup {ExtVectorT(BuiltinT(k), 2) : k \in {"Long", "ULongLong"}}
  \cup {ConstantArrayT(e, n) :
          e \in RecordTypes \cup {BuiltinT("Int"), BuiltinT("Double"),
                                 ExtVectorT(BuiltinT("Float"), 3)},
          n \in 1..MaxArrayLen}
  \cup {PointerT(p) : p \in RecordTypes \cup {BuiltinT("Int"), BuiltinT("Double"),
                                            ExtVectorT(BuiltinT("Float"), 3)}}

Linkages == {"ExternalLinkage", "InternalLinkage", "NoLinkage"}

APILevels == (SLANG_ICS_TARGET_API - 1)..(SLANG_JB_TARGET_API + 1)

InitValidate ==
  /\ inp \in {[VD |-> VarDecl("v", T, l), TargetAPI |-> api, IsFilterscript |-> fs] :
                T \in ValidateTypes, l \in Linkages, api \in APILevels,
                fs \in BOOLEAN}
  /\ out = NotRun
  /\ is64Bit = FALSE
  /\ export_types = {}
  /\ heap = <<>>
  /\ log = <<>>

ValidateVarDeclCall ==
  /\ out = NotRun
  /\ LET r == ValidateVarDecl(inp.VD, inp.TargetAPI, inp.IsFilterscript)
     IN out' = [op |-> "ValidateVarDecl", ok |-> r.ok, diags |-> r.st.diags,
                faults |-> r.st.faults, visits |-> r.st.visits]
  /\ UNCHANGED <<inp, is64Bit, export_types, heap, log>>

\* One call of RSExportType::ValidateType on the type, for a declaration ND
\* that is no variable (a function) or for no declaration at all.
ValidateTypeCall(ND) ==
  /\ out = NotRun
  /\ LET Done(r) == out' = [op |-> "ValidateType", ok |-> r.ok, diags |-> r.st.diags,
                            faults |-> r.st.faults, ND |-> ND,
                            visits |-> r.st.visits]
     IN Done(ValidateType(inp.VD.type, ND, inp.TargetAPI, inp.IsFilterscript))
  /\ UNCHANGED <<inp, is64Bit, export_types, heap, log>>

NextValidate ==
  \/ ValidateVarDeclCall
  \/ \E ND \in {NoVD, FunctionDecl("f", inp.VD.type, inp.VD.linkage)} :
        ValidateTypeCall(ND)

SpecValidate == InitValidate /\ [][NextValidate]_vars

(***************************************************************************)
(* Properties of the Dialect Validator (SpecValidate)                      *)
(***************************************************************************)
Validated == out.op = "ValidateVarDecl"

IsObjectType(T) == IsRSObjectType(GetRSSpecificType(T))

\* the case of C10: an externally linked variable, not a pointer, whose type
\* is a user struct with a definition and a field of runtime-object type
ObjStructVar ==
  LET T == inp.VD.type
  IN /\ inp.VD.linkage = "ExternalLinkage"
     /\ isStructureType(T)
     /\ GetRSSpecificType(T) = DataTypeUnknown
     /\ RecordDecl(T.decl).hasDefinition
     /\ \E i \in 1..Len(RecordDecl(T.decl).fields) :
           IsObjectType(RecordDecl(T.decl).fields[i].type)

WideKinds == {"Double", "LongDouble", "Long", "LongLong"}

\* every other field of the struct is a builtin scalar the dialect allows,
\* and the struct has no flexible array member
OtherFieldsLegal ==
  LET RD == RecordDecl(inp.VD.type.decl)
  IN /\ ~RD.hasFlexibleArrayMember
     /\ ~RD.hasObjectMember
     /\ \A i \in 1..Len(RD.fields) :
           \/ IsObjectType(RD.fields[i].type)
           \/ /\ RD.fields[i].type.cls = "Builtin"
              /\ ~(inp.IsFilterscript /\ RD.fields[i].type.kind \in WideKinds)

ObjectRuleMsg ==
  "arrays/structures containing RS object types cannot be exported in target API < %1: '%0'"

\* C10 as stated: such a variable is accepted when TargetAPI is at least
\* SLANG_JB_TARGET_API and rejected below it, and in the rejected case the
\* diagnostic names the struct.
C10_Original ==
  (Validated /\ ObjStructVar) =>
     IF inp.TargetAPI >= SLANG_JB_TARGET_API THEN out.ok
     ELSE /\ ~out.ok
          /\ Len(out.diags) = 1
          /\ out.diags[1].name = RecordDecl(inp.VD.type.decl).name

\* C10 amended: such a variable is rejected when TargetAPI is below
\* SLANG_JB_TARGET_API; at or above it the object field is no cause of
\* rejection, and the variable is accepted when the other fields of the
\* struct are builtin scalars legal in the dialect; the diagnostic of the
\* object rule names the variable, not the struct, and for a struct of
\* otherwise legal fields it is the one diagnostic reported.
C10_DialectGating ==
  (Validated /\ ObjStructVar) =>
     /\ inp.TargetAPI < SLANG_JB_TARGET_API => ~out.ok
     /\ inp.TargetAPI >= SLANG_JB_TARGET_API =>
           /\ \A k \in 1..Len(out.diags) : out.diags[k].msg # ObjectRuleMsg
           /\ OtherFieldsLegal => (out.ok /\ out.diags = <<>>)
     /\ \A k \in 1..Len(out.diags) :
           out.diags[k].msg = ObjectRuleMsg =>
              (out.diags[k].name = inp.VD.name /\ out.diags[k].at = <<"decl", inp.VD.name>>)
     /\ (inp.TargetAPI < SLANG_JB_TARGET_API /\ OtherFieldsLegal) =>
           (Len(out.diags) = 1 /\ out.diags[1].msg = ObjectRuleMsg)

C10_Witness ==
  /\ Validated
  /\ inp.VD.type = RecordT("HasObj")
  /\ inp.VD.linkage = "ExternalLinkage"
  /\ inp.TargetAPI = SLANG_JB_TARGET_API - 1
  /\ ~out.ok
  /\ out.diags[1].name = "v"

(***************************************************************************)
(* The structure of a type, for the statements that speak of what a type   *)
(* contains                                                                *)
(***************************************************************************)
\* a record that bears the name of a matrix or runtime-object type
IsSpecificRecord(T) == T.cls = "Record" /\ GetRSSpecificType(T) # DataTypeUnknown

\* the types a type is made of directly
ChildrenAll(T) ==
  CASE T.cls = "Record" ->
         IF ~RecordDecl(T.decl).hasDefinition THEN {}
         ELSE {GetCanonicalType(GetTypeOfDecl(RecordDecl(T.decl).fields[i])) :
                 i \in 1..Len(RecordDecl(T.decl).fields)}
    [] T.cls \in {"ConstantArray", "IncompleteArray", "ExtVector"} ->
         {GetCanonicalType(T.elem)}
    [] T.cls = "Pointer" -> {GetCanonicalType(T.pointee)}
    [] OTHER -> {}

\* the same, a record named as a matrix or object type being a leaf
Children(T) == IF IsSpecificRecord(T) THEN {} ELSE ChildrenAll(T)

RECURSIVE ReachAll(_, _)
ReachAll(todo, seen) ==
  IF todo = {} THEN seen
  ELSE LET T == CHOOSE t \in todo : TRUE
       IN ReachAll((todo \cup ChildrenAll(T)) \ (seen \cup {T}), seen \cup {T})

PartsAll(T) == ReachAll({T}, {})
InsideAll(T) == ReachAll(ChildrenAll(T), {})

RECURSIVE Reach(_, _)
Reach(todo, seen) ==
  IF todo = {} THEN seen
  ELSE LET T == CHOOSE t \in todo : TRUE
       IN Reach((todo \cup Children(T)) \ (seen \cup {T}), seen \cup {T})

\* T and every type it contains, at any depth
Parts(T) == Reach({T}, {})

\* the types T contains, T itself left out unless it contains itself
Inside(T) == Reach(Children(T), {})

ContainsObject(T) == \E P \in Inside(T) : IsObjectType(P)

\* a union with a member of runtime-object type, directly or through nested
\* structs and arrays
UnionWithObject(P) == isUnionType(P) /\ ~IsSpecificRecord(P) /\ ContainsObject(P)

HasFlexibleArray(P) ==
  P.cls = "Record" /\ ~IsSpecificRecord(P) /\ RecordDecl(P.decl).hasFlexibleArrayMember

(***************************************************************************)
(* Further properties of the Dialect Validator (SpecValidate)              *)
(***************************************************************************)
\* no rule of the validator other than the object rule can reject the
\* declaration: not Filterscript, the API level not below
\* SLANG_ICS_TARGET_API, no union with an object member and no struct with a
\* flexible array member in the type
OtherRulesSilent ==
  /\ ~inp.IsFilterscript
  /\ inp.TargetAPI >= SLANG_ICS_TARGET_API
  /\ \A P \in Parts(inp.VD.type) : ~UnionWithObject(P) /\ ~HasFlexibleArray(P)

\* an array or struct type, itself no object type, that contains an object
CompositeWithObject(T) ==
  /\ T.cls = "ConstantArray" \/ (isStructureType(T) /\ ~IsSpecificRecord(T))
  /\ ContainsObject(T)

NoObjectRuleDiag == \A k \in 1..Len(out.diags) : out.diags[k].msg # ObjectRuleMsg

\* C11 as stated: below SLANG_JB_TARGET_API an externally linked variable
\* whose array or struct type contains an object type is rejected, unless
\* its own type is a pointer, and then it is accepted; a variable without
\* external linkage and a variable of object type are accepted at every
\* API level.
C11_Original ==
  Validated =>
     LET T == inp.VD.type
         ext == inp.VD.linkage = "ExternalLinkage"
     IN /\ (inp.TargetAPI < SLANG_JB_TARGET_API /\ ext /\ CompositeWithObject(T))
              => ~out.ok
        /\ (inp.TargetAPI < SLANG_JB_TARGET_API /\ ext /\ T.cls = "Pointer"
              /\ ContainsObject(T)) => out.ok
        /\ (~ext /\ (ContainsObject(T) \/ IsObjectType(T))) => out.ok
        /\ IsObjectType(T) => out.ok

\* C11 amended: below SLANG_JB_TARGET_API an externally linked variable
\* whose array or struct type contains an object type is rejected; when the
\* variable's own type is a pointer, or the variable has no external
\* linkage, the object rule reports nothing, and the variable is accepted
\* provided no other rule of the validator rejects it (Filterscript, a
\* 3-vector below SLANG_ICS_TARGET_API, an object inside a union, a flexible
\* array member); a variable of object type is accepted at every API level.
C11_ObjectByPointer ==
  Validated =>
     LET T == inp.VD.type
         ext == inp.VD.linkage = "ExternalLinkage"
     IN /\ (inp.TargetAPI < SLANG_JB_TARGET_API /\ ext /\ CompositeWithObject(T))
              => ~out.ok
        /\ ((T.cls = "Pointer" \/ ~ext) /\ (ContainsObject(T) \/ IsObjectType(T))) =>
              /\ NoObjectRuleDiag
              /\ OtherRulesSilent => (out.ok /\ out.diags = <<>>)
        /\ IsObjectType(T) => (out.ok /\ out.diags = <<>>)

C11_Witness ==
  /\ Validated
  /\ inp.VD.type = PointerT(RecordT("HasObj"))
  /\ inp.VD.linkage = "ExternalLinkage"
  /\ inp.TargetAPI < SLANG_JB_TARGET_API
  /\ ~inp.IsFilterscript
  /\ out.ok

(***************************************************************************)
(* Further properties of the descriptors built by the factory (Spec)       *)
(***************************************************************************)
Records == {a \in DOMAIN heap : heap[a].mClass = "ExportClassRecord"}

SameCount(a, b) == Len(heap[a].mFields) = Len(heap[b].mFields)

\* the field types of a and b are equals() position by position
FieldTypesEqual(a, b) ==
  \A i \in 1..Len(heap[a].mFields) :
     equals(heap, heap[a].mFields[i].type, heap[b].mFields[i].type)

SameFieldNames(a, b) ==
  \A i \in 1..Len(heap[a].mFields) : heap[a].mFields[i].name = heap[b].mFields[i].name

\* C12: two Record descriptors with the same number of fields, pairwise
\* equals() field types in declaration order, the same field names and the
\* same packed flag are equals() in both directions; two Record descriptors
\* with a different number of fields, or with a position whose field types
\* are not equals(), are not equals().
C12_RecordEquality ==
  \A a \in Records : \A b \in Records :
     /\ (SameCount(a, b) /\ FieldTypesEqual(a, b) /\ SameFieldNames(a, b)
           /\ heap[a].mIsPacked = heap[b].mIsPacked)
          => (equals(heap, a, b) /\ equals(heap, b, a))
     /\ (~SameCount(a, b) \/ ~FieldTypesEqual(a, b))
          => (~equals(heap, a, b) /\ ~equals(heap, b, a))

\* struct Point and struct Point2, of the same fields, were created as two
\* descriptors of two names, and they are equals()
C12_Witness ==
  /\ Len(log) = 2
  /\ log[1].T = RecordT("Point") /\ log[2].T = RecordT("Point2")
  /\ log[1].ret \in Records /\ log[2].ret \in Records
  /\ log[1].ret # log[2].ret
  /\ equals(heap, log[1].ret, log[2].ret)

(***************************************************************************)
(* Further properties of the Exportability Analyzer (SpecExport)           *)
(***************************************************************************)
\* the analyzer's verdict on the pointee of the pointer type T
PointeeExportable(T) ==
  TypeExportable(GetPointeeType(T), NewSt, TRUE, inp.VD).ret # NullT

PointerRules ==
  /\ (inp.T.cls = "Pointer" /\ GetPointeeType(inp.T).cls = "Pointer") => Rejected
  /\ (inp.T.cls = "Pointer" /\ isArrayType(GetPointeeType(inp.T))) => Rejected
  /\ (inp.T.cls = "Pointer" /\ GetPointeeType(inp.T).cls # "Pointer"
        /\ ~isArrayType(GetPointeeType(inp.T)))
       => (Accepted <=> PointeeExportable(inp.T))

\* C13 as stated: a type is rejected when a pointer occurs inside any record
\* of it, directly or through arrays and nested structs; a pointer to a
\* pointer and a pointer to an array are rejected; any other top-level
\* pointer is accepted iff its pointee is exportable.
C13_Original ==
  Normalized =>
     /\ (\E R \in PartsAll(inp.T) :
           R.cls = "Record" /\ \E P \in InsideAll(R) : P.cls = "Pointer") => Rejected
     /\ PointerRules

\* C13 amended: a type is rejected when a pointer occurs inside a record of
\* it that does not bear the name of a matrix or runtime-object type, such
\* records being accepted without inspection of their fields; a pointer to
\* a pointer and a pointer to an array are rejected; any other top-level
\* pointer is accepted iff its pointee is exportable.
C13_PointerExportability ==
  Normalized =>
     /\ (\E R \in Parts(inp.T) :
           R.cls = "Record" /\ ~IsSpecificRecord(R)
             /\ \E P \in Inside(R) : P.cls = "Pointer") => Rejected
     /\ PointerRules

C13_Witness ==
  /\ Rejected
  /\ inp.T = PointerT(PointerT(BuiltinT("Int")))
  /\ inp.VD # NoVD
  /\ Len(out.diags) = 1
  /\ out.diags[1].msg = "multiple levels of pointers cannot be exported: '%0'"

\* the builtin kinds of 32/64-bit floating point, of the signed and unsigned
\* 8/16/32/64-bit integers and of boolean
ScalarKinds ==
  {"Float", "Double", "Bool",
   "Char_S", "SChar", "Short", "Int", "Long", "LongLong",
   "Char_U", "UChar", "UShort", "UInt", "ULong", "ULongLong"}

\* C14 as stated: a builtin scalar type is accepted iff its kind is one of
\* 32/64-bit floating point, signed or unsigned 8/16/32/64-bit integer, or
\* boolean; wchar, char16, char32 and every other builtin kind are rejected.
C14_Original ==
  (Normalized /\ inp.T.cls = "Builtin") => (Accepted <=> inp.T.kind \in ScalarKinds)

\* C14 amended: a builtin scalar type is accepted iff its kind is one of
\* 32/64-bit floating point, signed or unsigned 8/16/32/64-bit integer,
\* boolean, char16 (exported as 'short') or char32 (exported as 'int');
\* wchar and every other builtin kind (void, half, long double) are
\* rejected.
C14_BuiltinWhitelist ==
  (Normalized /\ inp.T.cls = "Builtin") =>
     /\ Accepted <=> inp.T.kind \in ScalarKinds \cup {"Char16", "Char32"}
     /\ inp.T.kind = "Char16" => out.TypeName = <<"short">>
     /\ inp.T.kind = "Char32" => out.TypeName = <<"int">>
     /\ inp.T.kind \in {"WChar_S", "WChar_U", "Void", "Half", "LongDouble"} => Rejected

C14_Witness ==
  /\ Accepted
  /\ inp.T = BuiltinT("Char16")
  /\ inp.VD # NoVD
  /\ out.TypeName = <<"short">>
  /\ out.diags = <<>>

HasBitField(P) ==
  \E i \in 1..Len(RecordDecl(P.decl).fields) : RecordDecl(P.decl).fields[i].isBitField

\* a union, an anonymous struct that is no matrix or object type, a struct
\* with a flexible array member, without a definition or with a bit-field
IllegalShape(P) ==
  /\ P.cls = "Record"
  /\ \/ isUnionType(P)
     \/ RecordDecl(P.decl).name = "" /\ ~IsSpecificRecord(P)
     \/ RecordDecl(P.decl).hasFlexibleArrayMember
     \/ ~RecordDecl(P.decl).hasDefinition
     \/ HasBitField(P)

\* no Record descriptor has a field made from a bit-field
NoBitFieldDescriptor ==
  \A a \in Records : \A i \in 1..Len(heap[a].mFields) :
     ~RecordDecl(heap[a].from.decl).fields[i].isBitField

\* C15 as stated: the analyzer returns null for every type that is, or
\* contains at any depth, a union, an anonymous struct that is no matrix or
\* object type, a struct with a flexible array member, a struct without a
\* definition or a struct with a bit-field; no Record descriptor made by
\* Create has a field made from a bit-field.
C15_Original ==
  /\ Normalized => ((\E P \in PartsAll(inp.T) : IllegalShape(P)) => Rejected)
  /\ NoBitFieldDescriptor

\* C15 amended: the analyzer returns null for every type that is, or
\* contains at any depth, a record of one of these shapes that does not bear
\* the name of a matrix or runtime-object type: a union, an anonymous
\* struct, a struct with a flexible array member, a struct without a
\* definition, a struct with a bit-field; a record bearing such a name is
\* accepted without inspection; no Record descriptor made by Create has a
\* field made from a bit-field.
C15_IllegalShapes ==
  /\ Normalized =>
       /\ (\E P \in Parts(inp.T) : IllegalShape(P) /\ ~IsSpecificRecord(P)) => Rejected
       /\ IsSpecificRecord(inp.T) => Accepted
  /\ (log # <<>> /\ \E P \in Parts(inp.T) : IllegalShape(P) /\ ~IsSpecificRecord(P))
       => (log[1].ret = 0 /\ Records = {})
  /\ NoBitFieldDescriptor

\* a struct holding a struct with a bit-field was analysed and then given
\* to Create
C15_Witness ==
  /\ Rejected
  /\ inp.T = RecordT("OuterBits")
  /\ Len(log) = 1
  /\ log[1].ret = 0

\* the descriptor a is the Primitive descriptor of 'int', tag SIGNED_32
IsIntDescriptor(a) ==
  /\ a # 0
  /\ heap[a].mClass = "ExportClassPrimitive"
  /\ heap[a].mType = DataTypeSigned32
  /\ heap[a].mName = <<"int">>
  /\ [name |-> <<"int">>, obj |-> a] \in export_types

\* the descriptor of the one component of a struct of one field, of an
\* array or of a pointer
Component(a) ==
  CASE heap[a].mClass = "ExportClassRecord" -> heap[a].mFields[1].type
    [] heap[a].mClass = "ExportClassConstantArray" -> heap[a].mElementType
    [] heap[a].mClass = "ExportClassPointer" -> heap[a].mPointeeType

EnumHolders == {RecordT("HasEnum"), ConstantArrayT(EnumT, 2), PointerT(EnumT)}

RECURSIVE Outermost(_)
Outermost(T) ==
  CASE T.cls = "Record" -> T.decl
    [] T.cls = "Pointer" ->
         IF T.pointee.cls \in {"Pointer", "ConstantArray", "IncompleteArray"} THEN NoDecl
         ELSE Outermost(GetCanonicalType(T.pointee))
    [] T.cls = "ConstantArray" ->
         IF T.elem.cls \in {"ConstantArray", "IncompleteArray", "ExtVector"} THEN NoDecl
         ELSE Outermost(GetCanonicalType(T.elem))
    [] OTHER -> NoDecl

\* the analysis of inp.T enters the fields of a struct and rejects the type
FailsInsideStruct ==
  /\ Rejected
  /\ Outermost(inp.T) # NoDecl
  /\ LET R == RecordT(Outermost(inp.T))
     IN /\ ~IsSpecificRecord(R) /\ isStructureType(R)
        /\ RecordDecl(R.decl).hasDefinition
        /\ RecordDecl(R.decl).name # ""
        /\ ~RecordDecl(R.decl).hasFlexibleArrayMember

\* the bit-field diagnostic dg is about a bit-field of the record decl D
BitFieldOf(dg, D) ==
  /\ dg.at[1] = "field"
  /\ dg.name = RecordDecl(D).name
  /\ \E i \in 1..Len(RecordDecl(D).fields) :
        RecordDecl(D).fields[i].name = dg.at[2] /\ RecordDecl(D).fields[i].isBitField

\* the diagnostics reported for a pointer field and for a bad array field
TopLevelMsgs ==
  {"structures containing pointers cannot be exported: '%0'",
   "multidimensional arrays cannot be exported: '%0'",
   "vectors of non-primitive types cannot be exported: '%0'",
   "arrays of width 3 vector types cannot be exported: '%0'"}

C18_Original ==
  (Normalized /\ out.faults = {}) =>
     /\ ~out.ok => Len(out.diags) = 1
     /\ out.ok => out.diags = <<>>

\* a ValidateType call has returned, made directly or by ValidateVarDecl
TypeValidated == out.op \in {"ValidateType", "ValidateVarDecl"}

\* the builtin kinds wider than 32 bits: the 64-bit integers, signed and
\* unsigned, and the 64-bit and 80-bit floating kinds
Wider32Kinds == {"Long", "LongLong", "ULongLong", "Double", "LongDouble"}

ContainsKind(T, Kinds) == \E P \in Parts(T) : P.cls = "Builtin" /\ P.kind \in Kinds

WideScalarMsgs ==
  {"Builtin types > 32 bits in size are forbidden in Filterscript: '%0'",
   "Builtin types > 32 bits in size are forbidden in Filterscript"}

\* C19 as stated: with the Filterscript flag set ValidateType returns false,
\* with a diagnostic, for every type that is or contains a builtin scalar
\* wider than 32 bits (a 64-bit integer, signed or unsigned, a 64-bit or
\* 80-bit floating kind); with the flag clear no type is rejected for this
\* reason.
C19_Original ==
  TypeValidated =>
     /\ (inp.IsFilterscript /\ ContainsKind(inp.VD.type, Wider32Kinds))
          => (~out.ok /\ out.diags # <<>>)
     /\ ~inp.IsFilterscript
          => \A k \in 1..Len(out.diags) : out.diags[k].msg \notin WideScalarMsgs

\* the members of a record or array type, through nested structs and arrays
\* only
MemberChildren(T) == IF T.cls \in {"Record", "ConstantArray"} THEN Children(T) ELSE {}

RECURSIVE MemberReach(_, _)
MemberReach(todo, seen) ==
  IF todo = {} THEN seen
  ELSE LET T == CHOOSE t \in todo : TRUE
       IN MemberReach((todo \cup MemberChildren(T)) \ (seen \cup {T}), seen \cup {T})

Members(T) == MemberReach(MemberChildren(T), {})

\* a union with a member of object type, directly or through nested structs
\* and arrays
ObjectInUnion(P) ==
  isUnionType(P) /\ ~IsSpecificRecord(P) /\ \E M \in Members(P) : IsObjectType(M)

UnionObjectMsg == "unions containing RS object types are not allowed"

\* C20 as stated: at every target version ValidateType returns false for a
\* type that contains a union with a member of object type, directly or
\* through nested structs and arrays, wherever the union stands among its
\* sibling fields and whether or not the nested struct also occurs outside
\* the union; a union without an object member is not rejected for its
\* members.
C20_Original ==
  TypeValidated =>
     /\ (\E P \in Parts(inp.VD.type) : ObjectInUnion(P)) => ~out.ok
     /\ (\A P \in Parts(inp.VD.type) : ~ObjectInUnion(P))
          => \A k \in 1..Len(out.diags) : out.diags[k].msg # UnionObjectMsg

\* the declaration the ValidateType call was made for
CallND == IF out.op = "ValidateType" THEN out.ND ELSE inp.VD

\* the types met inside an array or a struct of T, a pointer at top level
\* being looked through
RECURSIVE CompositeInside(_)
CompositeInside(T) ==
  IF T.cls = "Pointer" THEN CompositeInside(GetCanonicalType(T.pointee)) ELSE Inside(T)

HasNestedVec3(T) == \E P \in CompositeInside(T) : P.cls = "ExtVector" /\ P.n = 3

Vec3Msg ==
  "structs containing vectors of dimension 3 cannot be exported at this API level: '%0'"

\* C21: ValidateType returns false for a declaration with external linkage
\* whose type has a 3-element vector inside an array or struct when
\* TargetAPI is below SLANG_ICS_TARGET_API; the 3-vector rule rejects
\* nothing at or above that level, nothing whose 3-vector is the top-level
\* type or the pointee of a top-level pointer, and nothing without external
\* linkage.
C21_Vec3InComposite ==
  TypeValidated =>
     LET ext == CallND # NoVD /\ CallND.linkage = "ExternalLinkage"
         below == inp.TargetAPI < SLANG_ICS_TARGET_API
         NoVec3Diag == \A k \in 1..Len(out.diags) : out.diags[k].msg # Vec3Msg
     IN /\ (below /\ ext /\ HasNestedVec3(inp.VD.type)) => ~out.ok
        /\ (~below \/ ~ext \/ ~HasNestedVec3(inp.VD.type)) => NoVec3Diag
        /\ (inp.VD.type \in {ExtVectorT(BuiltinT("Float"), 3),
                             PointerT(ExtVectorT(BuiltinT("Float"), 3))}
              /\ ~inp.IsFilterscript) => (out.ok /\ out.diags = <<>>)

C21_Witness ==
  /\ out.op = "ValidateType"
  /\ out.ND = FunctionDecl("f", RecordT("HasVec3"), "ExternalLinkage")
  /\ inp.TargetAPI = SLANG_ICS_TARGET_API - 1
  /\ ~out.ok
  /\ Len(out.diags) = 1
  /\ out.diags[1].msg = Vec3Msg

(***************************************************************************)
(* keep() and getLLVMType() of the descriptors                             *)
(***************************************************************************)
\* RSExportable::keep: marks the exportable, once
ExportableKeep(h, this) ==
  IF h[this].mKeep THEN [ret |-> FALSE, h |-> h]
  ELSE [ret |-> TRUE, h |-> [h EXCEPT ![this].mKeep = TRUE]]

\* RSExportType::keep without the invalidation of the converted type
TypeKeep_NoReset(h, this) == ExportableKeep(h, this)

\* RSExportType::keep
TypeKeep(h, this) ==
  LET Kept(b) == IF ~b.ret THEN b
                 ELSE [ret |-> TRUE, h |-> [b.h EXCEPT ![this].mLLVMType = 0]]
  IN Kept(ExportableKeep(h, this))

RECURSIVE keep(_, _)
RECURSIVE keepFields(_, _, _)

\* the loop of RSExportRecordType::keep: fields i..Len of this
keepFields(h, this, i) ==
  IF i > Len(h[this].mFields) THEN h
  ELSE keepFields(keep(h, h[this].mFields[i].type).h, this, i + 1)

\* The virtual keep(), dispatched on the class of this.
keep(h, this) ==
  LET Sub(b) ==
        IF ~b.ret THEN b
        ELSE CASE h[this].mClass = "ExportClassPointer" ->
                    [ret |-> TRUE, h |-> keep(b.h, h[this].mPointeeType).h]
               [] h[this].mClass = "ExportClassConstantArray" ->
                    [ret |-> TRUE, h |-> keep(b.h, h[this].mElementType).h]
               [] h[this].mClass = "ExportClassRecord" ->
                    [ret |-> TRUE, h |-> keepFields(b.h, this, 1)]
               [] OTHER -> b
  IN Sub(TypeKeep(h, this))

RECURSIVE getLLVMType(_, _, _)
RECURSIVE convertFields(_, _, _, _)

\* the loop of RSExportRecordType::convertToLLVMType: fields i..Len of this
convertFields(h, this, i, calls) ==
  IF i > Len(h[this].mFields) THEN [h |-> h, calls |-> calls]
  ELSE LET Rest(r) == convertFields(r.h, this, i + 1, r.calls)
       IN Rest(getLLVMType(h, h[this].mFields[i].type, calls))

\* convertToLLVMType, dispatched on the class of this: the types of the
\* descriptors referred to are asked for; calls lists the conversions made
convertToLLVMType(h, this, calls) ==
  LET c == Append(calls, this)
  IN CASE h[this].mClass = "ExportClassPointer" ->
            getLLVMType(h, h[this].mPointeeType, c)
       [] h[this].mClass = "ExportClassConstantArray" ->
            getLLVMType(h, h[this].mElementType, c)
       [] h[this].mClass = "ExportClassRecord" -> convertFields(h, this, 1, c)
       [] OTHER -> [h |-> h, calls |-> c]

\* RSExportType::getLLVMType
getLLVMType(h, this, calls) ==
  IF h[this].mLLVMType # 0 THEN [h |-> h, calls |-> calls]
  ELSE LET Cached(r) == [h |-> [r.h EXCEPT ![this].mLLVMType = 1], calls |-> r.calls]
       IN Cached(convertToLLVMType(h, this, calls))

(***************************************************************************)
(* Specification of the descriptor life cycle: Create calls, keep() and    *)
(* getLLVMType() on the descriptors of the context                         *)
(***************************************************************************)
KeepTypes ==
  {RecordT("Outer"), ConstantArrayT(RecordT("Point"), 2), PointerT(RecordT("Point"))}

\* inp counts, per descriptor, the conversions made since the descriptor
\* was constructed or last marked by keep()
InitKeep ==
  /\ inp = [converts |-> <<>>]
  /\ out = NotRun
  /\ is64Bit = FALSE
  /\ export_types = {}
  /\ heap = <<>>
  /\ log = <<>>

Converts(c, a) == IF a \in DOMAIN c THEN c[a] ELSE 0

Count(calls, a) == Cardinality({k \in 1..Len(calls) : calls[k] = a})

KeepCall(obj) ==
  /\ LET Done(r) ==
           /\ heap' = r.h
           /\ out' = [op |-> "keep", obj |-> obj, ret |-> r.ret]
           /\ inp' = [converts |->
                        [a \in 1..Len(heap) |->
                           IF r.h[a].mKeep /\ ~heap[a].mKeep THEN 0
                           ELSE Converts(inp.converts, a)]]
     IN Done(keep(heap, obj))
  /\ UNCHANGED <<is64Bit, export_types, log>>

GetLLVMTypeCall(obj) ==
  /\ LET Done(r) ==
           /\ heap' = r.h
           /\ out' = [op |-> "getLLVMType", obj |-> obj, calls |-> r.calls]
           /\ inp' = [converts |->
                        [a \in 1..Len(heap) |->
                           Converts(inp.converts, a) + Count(r.calls, a)]]
     IN Done(getLLVMType(heap, obj, <<>>))
  /\ UNCHANGED <<is64Bit, export_types, log>>

NextKeep ==
  \/ \E T \in KeepTypes : CreateCall(T)
  \/ \E obj \in 1..Len(heap) : KeepCall(obj)
  \/ \E obj \in 1..Len(heap) : GetLLVMTypeCall(obj)

SpecKeep == InitKeep /\ [][NextKeep]_vars

(***************************************************************************)
(* Properties of the descriptor life cycle (SpecKeep)                      *)
(***************************************************************************)
\* the descriptors a descriptor refers to directly
SubDescriptors(h, a) ==
  CASE h[a].mClass = "ExportClassPointer" -> {h[a].mPointeeType}
    [] h[a].mClass = "ExportClassConstantArray" -> {h[a].mElementType}
    [] h[a].mClass = "ExportClassRecord" ->
         {h[a].mFields[i].type : i \in 1..Len(h[a].mFields)}
    [] OTHER -> {}

RECURSIVE DescReach(_, _, _)
DescReach(h, todo, seen) ==
  IF todo = {} THEN seen
  ELSE LET a == CHOOSE x \in todo : TRUE
       IN DescReach(h, (todo \cup SubDescriptors(h, a)) \ (seen \cup {a}), seen \cup {a})

\* a descriptor and every descriptor it refers to, at any depth
Referenced(h, a) == DescReach(h, {a}, {})

\* what a keep() call on obj has done when it returns
KeepEffect(obj) ==
  IF out'.ret
    THEN /\ ~heap[obj].mKeep
         /\ heap'[obj].mLLVMType = 0
         /\ \A a \in Referenced(heap, obj) :
               /\ heap'[a].mKeep
               /\ ~heap[a].mKeep => heap'[a].mLLVMType = 0
               /\ heap[a].mKeep => heap'[a] = heap[a]
         /\ \A a \in (1..Len(heap)) \ Referenced(heap, obj) : heap'[a] = heap[a]
    ELSE heap[obj].mKeep /\ heap' = heap

\* what a getLLVMType() call on obj has done when it returns
ConvertEffect(obj) ==
  /\ heap'[obj].mLLVMType = 1
  /\ heap[obj].mLLVMType = 1 => (heap' = heap /\ out'.calls = <<>>)
  /\ \A a \in 1..Len(heap) : Count(out'.calls, a) <= 1

\* C22: a keep() that returns true has reset the descriptor's cached
\* backend type and has reached every descriptor it refers to (pointee,
\* element, field types), recursively: each is marked, and each that was
\* not marked before has its cache reset; a keep() whose base keep()
\* returns false changes nothing.  Between keeps getLLVMType converts a
\* descriptor at most once.
C22_KeepPropagation ==
  /\ [][(\A obj \in 1..Len(heap) : KeepCall(obj) => KeepEffect(obj))
        /\ (\A obj \in 1..Len(heap) : GetLLVMTypeCall(obj) => ConvertEffect(obj))]_vars
  /\ [](\A a \in 1..Len(heap) : Converts(inp.converts, a) <= 1)

\* struct Outer was converted, then kept: it and all it refers to are marked
\* and their caches are empty again
C22_Witness ==
  /\ out.op = "keep" /\ out.ret
  /\ heap[out.obj].from = RecordT("Outer")
  /\ Cardinality(Referenced(heap, out.obj)) > 2
  /\ \A a \in Referenced(heap, out.obj) :
        heap[a].mKeep /\ heap[a].mLLVMType = 0 /\ Converts(inp.converts, a) = 0
  /\ \E a \in (1..Len(heap)) \ Referenced(heap, out.obj) : heap[a].mLLVMType = 1

(***************************************************************************)
(* Further properties of the descriptor sizes (SpecSize)                   *)
(***************************************************************************)
\* C23 as stated: getSize() is the element count: 1 for a scalar Primitive,
\* N for a Vector of N elements, the array length for a ConstantArray.
C23_Original ==
  out.op = "getSize" =>
     LET ET == heap[out.obj]
     IN /\ ET.mClass = "ExportClassPrimitive" => out.size = 1
        /\ ET.mClass = "ExportClassVector" => out.size = ET.mNumElement
        /\ ET.mClass = "ExportClassConstantArray" => out.size = ET.from.size

(***************************************************************************)
(* The compiler driver (Slang): output stream, diagnostics engine and the  *)
(* compile() step                                                          *)
(***************************************************************************)
OutputTypes ==
  {"OT_Dependency", "OT_Assembly", "OT_LLVMAssembly", "OT_Nothing", "OT_Object",
   "OT_Bitcode"}

OT_Default == "OT_Bitcode"

MaxStreams == 2

\* the Slang object after construction and init(): no stream, no backend,
\* no AST context, no preprocessor, a diagnostics engine without errors
NewSlang ==
  [hasErrorOccurred |-> FALSE, mOT |-> OT_Default, mOS |-> 0,
   mBackend |-> FALSE, mASTContext |-> FALSE, mPP |-> FALSE]

\* a llvm::tool_output_file: its file is deleted when the stream is
\* destroyed unless keep() was called
NewOutputFile == [Keep |-> FALSE, open |-> TRUE]

\* the outcomes of OpenOutputFile: the stream is returned ("ok"); the parent
\* directory cannot be created, which is reported and returns nullptr
\* ("dir_error"); the file cannot be opened, which sets Error and returns
\* the stream without a report ("open_error")
OpenOutcomes == {"ok", "dir_error", "open_error"}

OpenOutputFile(S, files, Outcome) ==
  CASE Outcome = "ok" ->
         [S |-> S, files |-> Append(files, NewOutputFile), OS |-> Len(files) + 1,
          Error |-> FALSE]
    [] Outcome = "open_error" ->
         [S |-> S, files |-> files, OS |-> 0, Error |-> TRUE]
    [] OTHER ->
         [S |-> [S EXCEPT !.hasErrorOccurred = TRUE], files |-> files, OS |-> 0,
          Error |-> TRUE]

\* std::unique_ptr<llvm::tool_output_file>::reset: the stream held is
\* destroyed
DestroyStream(files, OS) ==
  IF OS = 0 THEN files ELSE [files EXCEPT ![OS].open = FALSE]

\* Slang::setOutputType
setOutputType(S, OT) == [S EXCEPT !.mOT = OT]

\* Slang::setOutput
setOutput(S, files, Outcome) ==
  LET o == IF S.mOT = "OT_Nothing"
             THEN [S |-> S, files |-> files, OS |-> 0, Error |-> FALSE]
             ELSE OpenOutputFile(S, files, Outcome)
  IN IF o.Error THEN [S |-> o.S, files |-> o.files, ret |-> FALSE]
     ELSE [S |-> [o.S EXCEPT !.mOS = o.OS],
           files |-> DestroyStream(o.files, S.mOS), ret |-> TRUE]

\* Slang::setInputSource: a main file that cannot be read is reported
setInputSource(S, Valid) ==
  IF ~Valid THEN [S |-> [S EXCEPT !.hasErrorOccurred = TRUE], ret |-> FALSE]
  ELSE [S |-> S, ret |-> TRUE]

\* Slang::reset
reset(S) == [S EXCEPT !.hasErrorOccurred = FALSE]

\* Slang::compile with a stream that is kept whatever the parse reported
compile_KeepAlways(S, files, ParseError) ==
  IF S.hasErrorOccurred THEN [S |-> S, files |-> files, ret |-> 1, parsed |-> FALSE]
  ELSE IF S.mOS = 0 THEN [S |-> S, files |-> files, ret |-> 1, parsed |-> FALSE]
  ELSE LET created == [S EXCEPT !.mPP = TRUE, !.mASTContext = TRUE,
                                !.mBackend = TRUE]
           ended == [created EXCEPT !.hasErrorOccurred = ParseError]
           kept == [files EXCEPT ![S.mOS].Keep = TRUE]
           released == [ended EXCEPT !.mBackend = FALSE, !.mASTContext = FALSE,
                                     !.mPP = FALSE, !.mOS = 0]
       IN [S |-> released, files |-> DestroyStream(kept, S.mOS),
           ret |-> IF released.hasErrorOccurred THEN 1 ELSE 0, parsed |-> TRUE]

\* Slang::compile; ParseError tells whether ParseAST reports an error
compile(S, files, ParseError) ==
  IF S.hasErrorOccurred THEN [S |-> S, files |-> files, ret |-> 1, parsed |-> FALSE]
  ELSE IF S.mOS = 0 THEN [S |-> S, files |-> files, ret |-> 1, parsed |-> FALSE]
  ELSE LET created == [S EXCEPT !.mPP = TRUE, !.mASTContext = TRUE,
                                !.mBackend = TRUE]
           ended == [created EXCEPT !.hasErrorOccurred = ParseError]
           kept == IF ~ended.hasErrorOccurred
                     THEN [files EXCEPT ![S.mOS].Keep = TRUE]
                     ELSE files
           released == [ended EXCEPT !.mBackend = FALSE, !.mASTContext = FALSE,
                                     !.mPP = FALSE, !.mOS = 0]
       IN [S |-> released, files |-> DestroyStream(kept, S.mOS),
           ret |-> IF released.hasErrorOccurred THEN 1 ELSE 0, parsed |-> TRUE]

(***************************************************************************)
(* Specification of the driver: inp is the Slang object, log the streams   *)
(* opened so far, out the last call                                        *)
(***************************************************************************)
InitSlang ==
  /\ inp = NewSlang
  /\ out = NotRun
  /\ is64Bit = FALSE
  /\ export_types = {}
  /\ heap = <<>>
  /\ log = <<>>

SetOutputTypeCall(OT) ==
  /\ inp' = setOutputType(inp, OT)
  /\ out' = [op |-> "setOutputType", OT |-> OT]
  /\ UNCHANGED <<is64Bit, export_types, heap, log>>

SetOutputCall(Outcome) ==
  /\ Len(log) < MaxStreams
  /\ inp' = setOutput(inp, log, Outcome).S
  /\ log' = setOutput(inp, log, Outcome).files
  /\ out' = [op |-> "setOutput", ret |-> setOutput(inp, log, Outcome).ret]
  /\ UNCHANGED <<is64Bit, export_types, heap>>

SetInputSourceCall(Valid) ==
  /\ inp' = setInputSource(inp, Valid).S
  /\ out' = [op |-> "setInputSource", ret |-> setInputSource(inp, Valid).ret]
  /\ UNCHANGED <<is64Bit, export_types, heap, log>>

ResetCall ==
  /\ inp' = reset(inp)
  /\ out' = [op |-> "reset"]
  /\ UNCHANGED <<is64Bit, export_types, heap, log>>

CompileCall(ParseError) ==
  /\ inp' = compile(inp, log, ParseError).S
  /\ log' = compile(inp, log, ParseError).files
  /\ out' = [op |-> "compile", ret |-> compile(inp, log, ParseError).ret,
             parsed |-> compile(inp, log, ParseError).parsed]
  /\ UNCHANGED <<is64Bit, export_types, heap>>

NextSlang ==
  \/ \E OT \in OutputTypes : SetOutputTypeCall(OT)
  \/ \E Outcome \in OpenOutcomes : SetOutputCall(Outcome)
  \/ \E Valid \in BOOLEAN : SetInputSourceCall(Valid)
  \/ ResetCall
  \/ \E ParseError \in BOOLEAN : CompileCall(ParseError)

SpecSlang == InitSlang /\ [][NextSlang]_vars

(***************************************************************************)
(* Properties of the driver (SpecSlang)                                    *)
(***************************************************************************)
Released(S) == S.mOS = 0 /\ ~S.mBackend /\ ~S.mASTContext /\ ~S.mPP

\* what one call of compile() does
CompileEffect ==
  IF inp.hasErrorOccurred \/ inp.mOS = 0
    THEN out'.ret = 1 /\ ~out'.parsed /\ inp' = inp /\ log' = log
    ELSE /\ out'.parsed
         /\ log'[inp.mOS].Keep = ~inp'.hasErrorOccurred
         /\ out'.ret = (IF inp'.hasErrorOccurred THEN 1 ELSE 0)
         /\ Released(inp')
         /\ ~log'[inp.mOS].open
         /\ \A s \in 1..Len(log) : s # inp.mOS => log'[s] = log[s]

\* C24 as stated: compile() keeps the stream iff no error has occurred by
\* the end of parsing and returns 0 in that case, 1 otherwise; it returns 1
\* without parsing when an error had occurred or no stream is set; and after
\* every return of compile() the stream, the backend, the AST context and
\* the preprocessor are released
C24_Original ==
  out.op = "compile" => Released(inp)

\* C24: compile() keeps the stream iff no error has occurred by the end of
\* parsing and returns 0 in that case, 1 otherwise; it returns 1 without
\* parsing and without touching the Slang object when an error had occurred
\* or no stream is set; a compile() that parsed releases the stream, the
\* backend, the AST context and the preprocessor; a compile() that directly
\* follows a compile() returns 1; no released stream is kept unless a
\* compile() returned 0 for it
C24_NoOutputOnError ==
  [][(\A ParseError \in BOOLEAN :
        CompileCall(ParseError) =>
          /\ CompileEffect
          /\ (out.op = "compile" => out'.ret = 1))
     /\ (\A s \in 1..Len(log) :
           log'[s].Keep /\ ~log[s].Keep => out'.op = "compile" /\ out'.ret = 0)]_vars

\* compile() returned 1 at once because of an error reported before it, and
\* the stream set for it is still held, while the stream of an earlier
\* compile() was kept
C24_Witness ==
  /\ out.op = "compile"
  /\ out.ret = 1
  /\ ~out.parsed
  /\ inp.mOS # 0
  /\ log[inp.mOS].open
  /\ ~log[inp.mOS].Keep
  /\ \E s \in 1..Len(log) : log[s].Keep /\ ~log[s].open


(***************************************************************************)
(* The validator as a pure check (SpecValidate)                            *)
(***************************************************************************)
\* C25 as stated: a call of ValidateType creates no descriptor and leaves
\* the intern table unchanged; when it returns false it has reported exactly
\* one diagnostic, and when it returns true it has reported none, for every
\* rejection cause, a record with a flexible array member included.
C25_Original ==
  (out.op = "ValidateType" /\ out.faults = {}) =>
     /\ heap = <<>>
     /\ export_types = {}
     /\ ~out.ok => Len(out.diags) = 1
     /\ out.ok => out.diags = <<>>

(***************************************************************************)
(* Constant arrays (Spec)                                                  *)
(***************************************************************************)
\* C26 as stated: every ConstantArray descriptor that Create returns for a
\* type the analyzer accepts has a size greater than 0 and an element
\* descriptor that is no ConstantArray; a constant array of length 0 never
\* yields a descriptor.
C26_Original ==
  \A k \in 1..Len(log) :
     (log[k].canon.cls = "ConstantArray" /\ log[k].ret # 0) =>
        /\ log[k].T.size > 0
        /\ heap[log[k].ret].mClass = "ExportClassConstantArray" =>
              /\ heap[log[k].ret].mSize > 0
              /\ heap[heap[log[k].ret].mElementType].mClass # "ExportClassConstantArray"

(***************************************************************************)
(* Termination of the validator (SpecValidate)                             *)
(***************************************************************************)
\* no rule of the validator applies to the declaration
NoViolation == OtherRulesSilent /\ inp.TargetAPI >= SLANG_JB_TARGET_API

\* the type has a record that refers to itself through its fields
Cyclic(T) ==
  \E P \in PartsAll(T) : P.cls = "Record" /\ P \in InsideAll(P)

\* C27: ValidateType terminates on every type, the self-referential and the
\* mutually referential structs included; it enters the field loop of each
\* distinct record at most once per call, and only for records of the type;
\* and it returns true without a diagnostic when no rule applies.
C27_Termination ==
  TypeValidated =>
     /\ "stack_overflow" \notin out.faults
     /\ \A i, j \in 1..Len(out.visits) : i # j => out.visits[i] # out.visits[j]
     /\ \A i \in 1..Len(out.visits) : out.visits[i] \in PartsAll(inp.VD.type)
     /\ NoViolation => (out.ok /\ out.diags = <<>>)

\* the validator has returned true for struct Ping, which points to struct
\* Pong, whose array of pointers leads back to struct Ping, each entered once
C27_Witness ==
  /\ TypeValidated
  /\ inp.VD.type = RecordT("Ping")
  /\ Cyclic(inp.VD.type)
  /\ NoViolation
  /\ out.ok
  /\ out.visits = <<RecordT("Ping"), RecordT("Pong")>>

(***************************************************************************)
(* The validator and the order of fields (SpecValidate)                    *)
(***************************************************************************)
\* the declarations A and B have the same fields in another order (or in
\* the same order): a one-to-one mapping of the positions of A onto those
\* of B maps every field onto an equal field; the tag names may differ
FieldPermutation(A, B) ==
  /\ A.isUnion = B.isUnion
  /\ A.hasDefinition = B.hasDefinition
  /\ A.hasFlexibleArrayMember = B.hasFlexibleArrayMember
  /\ A.hasObjectMember = B.hasObjectMember
  /\ Len(A.fields) = Len(B.fields)
  /\ \E pi \in [1..Len(A.fields) -> 1..Len(A.fields)] :
        /\ \A i, j \in 1..Len(A.fields) : pi[i] = pi[j] => i = j
        /\ \A i \in 1..Len(A.fields) : A.fields[i] = B.fields[pi[i]]

\* T2 is T1 with the fields of its struct permuted, the struct being T1
\* itself, the pointee of T1 or the element of T1
Permuted(T1, T2) ==
  \/ /\ T1.cls = "Record" /\ T2.cls = "Record"
     /\ ~IsSpecificRecord(T1) /\ ~IsSpecificRecord(T2)
     /\ FieldPermutation(RecordDecl(T1.decl), RecordDecl(T2.decl))
  \/ /\ T1.cls = "Pointer" /\ T2.cls = "Pointer"
     /\ T1.pointee.cls = "Record" /\ T2.pointee.cls = "Record"
     /\ ~IsSpecificRecord(T1.pointee) /\ ~IsSpecificRecord(T2.pointee)
     /\ FieldPermutation(RecordDecl(T1.pointee.decl), RecordDecl(T2.pointee.decl))
  \/ /\ T1.cls = "ConstantArray" /\ T2.cls = "ConstantArray"
     /\ T1.size = T2.size
     /\ T1.elem.cls = "Record" /\ T2.elem.cls = "Record"
     /\ ~IsSpecificRecord(T1.elem) /\ ~IsSpecificRecord(T2.elem)
     /\ FieldPermutation(RecordDecl(T1.elem.decl), RecordDecl(T2.elem.decl))

\* the verdict of the same call for the declaration given the type T2
VerdictOn(T2) ==
  IF out.op = "ValidateVarDecl"
    THEN ValidateVarDecl([inp.VD EXCEPT !.type = T2], inp.TargetAPI,
                         inp.IsFilterscript).ok
    ELSE ValidateType(T2, IF out.ND = NoVD THEN NoVD ELSE [out.ND EXCEPT !.type = T2],
                      inp.TargetAPI, inp.IsFilterscript).ok

\* C28 as stated: ValidateType returns the same boolean for a struct type
\* and for the struct with its fields in any other order, for the same
\* declaration, target version and dialect flag.
C28_Original ==
  TypeValidated =>
     \A T2 \in ValidateTypes : Permuted(inp.VD.type, T2) => VerdictOn(T2) = out.ok

(***************************************************************************)
(* Identity names of accepted types (SpecExport)                           *)
(***************************************************************************)
\* the name of a builtin followed by the decimal width n, 2 <= n <= 4
WithWidth(base, n) ==
  (CASE base = "bool" -> <<"bool2", "bool3", "bool4">>
     [] base = "uchar" -> <<"uchar2", "uchar3", "uchar4">>
     [] base = "char" -> <<"char2", "char3", "char4">>
     [] base = "ushort" -> <<"ushort2", "ushort3", "ushort4">>
     [] base = "short" -> <<"short2", "short3", "short4">>
     [] base = "uint" -> <<"uint2", "uint3", "uint4">>
     [] base = "int" -> <<"int2", "int3", "int4">>
     [] base = "ulong" -> <<"ulong2", "ulong3", "ulong4">>
     [] base = "long" -> <<"long2", "long3", "long4">>
     [] base = "float" -> <<"float2", "float3", "float4">>
     [] base = "double" -> <<"double2", "double3", "double4">>
     [] OTHER -> <<"", "", "">>)[n - 1]

\* the identity name NormalizeType gives the pointee of the pointer type P
PointeeName(P) == NormalizeType(GetPointeeType(P), NewSt, TRUE, NoVD).TypeName

Descriptors == 1..Len(heap)

BothOf(a, b, class) == heap[a].mClass = class /\ heap[b].mClass = class

\* C30: on the descriptors of one context equals() is reflexive, symmetric
\* and transitive; descriptors of different classes are never equals(), a
\* Vector and a Primitive of the same data type included; two vectors are
\* equals() iff data type and element count agree, two pointers iff their
\* pointees are equals(), two arrays iff their sizes agree and their
\* elements are equals(), two matrices iff their dimensions agree.
C30_EqualsEquivalence ==
  \A a \in Descriptors :
     /\ equals(heap, a, a)
     /\ \A b \in Descriptors :
          /\ equals(heap, a, b) => equals(heap, b, a)
          /\ equals(heap, a, b) =>
                \A c \in Descriptors : equals(heap, b, c) => equals(heap, a, c)
          /\ heap[a].mClass # heap[b].mClass => ~equals(heap, a, b)
          /\ BothOf(a, b, "ExportClassPrimitive") =>
                (equals(heap, a, b) <=> heap[a].mType = heap[b].mType)
          /\ BothOf(a, b, "ExportClassVector") =>
                (equals(heap, a, b) <=>
                   (heap[a].mType = heap[b].mType
                      /\ heap[a].mNumElement = heap[b].mNumElement))
          /\ BothOf(a, b, "ExportClassPointer") =>
                (equals(heap, a, b) <=>
                   equals(heap, heap[a].mPointeeType, heap[b].mPointeeType))
          /\ BothOf(a, b, "ExportClassConstantArray") =>
                (equals(heap, a, b) <=>
                   (heap[a].mSize = heap[b].mSize
                      /\ equals(heap, heap[a].mElementType, heap[b].mElementType)))
          /\ BothOf(a, b, "ExportClassMatrix") =>
                (equals(heap, a, b) <=> heap[a].mDim = heap[b].mDim)

\* a Primitive and a Vector of the same data type are in the context and are
\* not equals() in either direction: the scalar float and the vector float2
C30_Witness ==
  \E a \in Descriptors : \E b \in Descriptors :
     /\ heap[a].mClass = "ExportClassPrimitive"
     /\ heap[b].mClass = "ExportClassVector"
     /\ heap[a].mType = heap[b].mType
     /\ ~equals(heap, a, b)
     /\ ~equals(heap, b, a)
====
